---- MODULE Spec2Model ----
(***************************************************************************)
(* Model of the SAR Monte Carlo simulator (backend/app/simulation).        *)
(*                                                                         *)
(* Numbers.  The program computes in floating point; the model computes in *)
(* integers on a planar lattice around the last-known point:               *)
(*   - a position (lat, lon) is a pair of integers in lattice units of     *)
(*     10 m, relative to the centre (0, 0); the cos(lat) factor of the     *)
(*     longitude axis is folded into the unit;                             *)
(*   - energy, slope, speed factor and weather penalty are in thousandths; *)
(*   - an optional float (Optional[float]) is a record [ok, v];            *)
(*   - a random draw is a nondeterministic choice (\E) over its outcomes.  *)
(***************************************************************************)
EXTENDS Integers, Sequences, FiniteSets, TLC

\* ------------------------------------------------------------------ bounds

\* Number of Monte Carlo agents of a run (settings.num_agents, 1000 by
\* default, is scaled down).
NumAgents == 2

\* The last timestep before which the caller may ask for cancellation.
MaxCancelStep == 1

\* How many times the kernel is applied to one agent in KernelSpec.
MaxKernelSteps == 6

\* How many kernel calls of one run may raise (an environment fault such as
\* a dead worker process or MemoryError).
MaxKernelFaults == 1

\* How many timesteps the two compared runs of TwinSpec make.
MaxTwinSteps == 2

\* ------------------------------------------------------- integer helpers

Max(a, b) == IF a >= b THEN a ELSE b

Min(a, b) == IF a <= b THEN a ELSE b

Abs(a) == IF a >= 0 THEN a ELSE -a

\* Python int(n / d) for d > 0: truncation toward zero.
Trunc(n, d) == IF n >= 0 THEN n \div d ELSE -((-n) \div d)

\* Python n // d for d > 0: floor.
FloorDiv(n, d) == n \div d

\* ceil(n / d) for n >= 0, d > 0.
CeilDiv(n, d) == (n + d - 1) \div d

\* n / d rounded away from zero (keeps the sign of a quotient), d > 0.
RoundAway(n, d) == IF n >= 0 THEN CeilDiv(n, d) ELSE -CeilDiv(-n, d)

RECURSIVE ISqrtFrom(_, _)
ISqrtFrom(n, r) == IF (r + 1) * (r + 1) > n THEN r ELSE ISqrtFrom(n, r + 1)

\* floor(sqrt(n)) for n >= 0.
ISqrt(n) == ISqrtFrom(n, 0)

RECURSIVE Pow2(_)
Pow2(k) == IF k <= 0 THEN 1 ELSE 2 * Pow2(k - 1)

Some(x) == [ok |-> TRUE, v |-> x]

None == [ok |-> FALSE, v |-> 0]

\* ---------------------------------------------------------------- config

\* Settings.timestep_minutes.
timestep_minutes == 15

\* Settings.default_grid_resolution_m = 100 m, in lattice units.
default_grid_resolution == 10

\* ------------------------------------------------------- terrain pipeline

Strategies == {"DT", "RT", "RW", "VE", "SP"}

\* TerrainPipeline.compute_bounds: the radius buffered by 10% on each side
\* of the centre (0, 0).  Exact for radii that are multiples of 10 units.
compute_bounds(radius) ==
  LET delta == (radius * 11) \div 10
  IN  [west |-> -delta, south |-> -delta, east |-> delta, north |-> delta]

\* TerrainPipeline.compute_grid_shape.
compute_grid_shape(bounds, resolution) ==
  [rows |-> CeilDiv(bounds.north - bounds.south, resolution),
   cols |-> CeilDiv(bounds.east - bounds.west, resolution)]

\* The elevation rasters the provider can deliver (lattice units of 10 m),
\* indexed [row][col] from 0, row 0 north, col 0 west:
\*   "flat"  a plateau at 3600 m;
\*   "ramp"  rising to the east by 300 m per cell of 100 m;
\*   "hole"  the plateau with NODATA (-9999) in the centre cell.
ElevationGrids == {"flat", "ramp", "hole"}

NODATA == -9999

elevation_grid(kind, shape) ==
  [r \in 0..(shape.rows - 1) |->
    [c \in 0..(shape.cols - 1) |->
      CASE kind = "flat" -> 360
        [] kind = "ramp" -> 360 + 30 * c
        [] OTHER -> IF r = shape.rows \div 2 /\ c = shape.cols \div 2
                    THEN NODATA ELSE 360]]

\* TerrainPipeline.load_terrain: the TerrainModel of a run.
load_terrain(radius, kind) ==
  LET b == compute_bounds(radius)
      s == compute_grid_shape(b, default_grid_resolution)
  IN  [bounds |-> b, shape |-> s, resolution |-> default_grid_resolution,
       elevation_grid |-> elevation_grid(kind, s)]

\* -------------------------------------------------------- terrain sampler

\* TerrainSampler._is_in_bounds.
is_in_bounds(t, lat, lon) ==
  /\ t.bounds.south <= lat /\ lat <= t.bounds.north
  /\ t.bounds.west <= lon /\ lon <= t.bounds.east

\* The denominator of a bilinear value: (north - south) * (east - west).
ElevDen(t) == (t.bounds.north - t.bounds.south) * (t.bounds.east - t.bounds.west)

\* r0, c0 of TerrainSampler.elevation for the fractional index n / den:
\* int(), then the clamp to [0, count - 1].
cell_lo(n, den, count) == Max(0, Min(Trunc(n, den), count - 1))

\* r1, c1 of TerrainSampler.elevation: min(int(n / den) + 1, count - 1).
cell_hi(n, den, count) == Min(Trunc(n, den) + 1, count - 1)

\* The bilinear value of TerrainSampler.elevation times dr_den * dc_den,
\* for the fractional parts dr / dr_den and dc / dc_den.
bilinear(g, r0, r1, c0, c1, dr, dc, dr_den, dc_den) ==
    g[r0][c0] * (dr_den - dr) * (dc_den - dc)
  + g[r0][c1] * (dr_den - dr) * dc
  + g[r1][c0] * dr * (dc_den - dc)
  + g[r1][c1] * dr * dc

\* The interpolation of TerrainSampler.elevation at the fractional indices
\* row_n / dr_den and col_n / dc_den.
interpolate(g, rows, cols, row_n, col_n, dr_den, dc_den) ==
  bilinear(g, cell_lo(row_n, dr_den, rows), cell_hi(row_n, dr_den, rows),
           cell_lo(col_n, dc_den, cols), cell_hi(col_n, dc_den, cols),
           row_n - cell_lo(row_n, dr_den, rows) * dr_den,
           col_n - cell_lo(col_n, dc_den, cols) * dc_den, dr_den, dc_den)

\* TerrainSampler.elevation with interpolate=True.  The fractional row is
\* (north - lat) * rows / (north - south); the result is the bilinear
\* value times ElevDen(t), so that it stays an integer.
elevation_scaled(t, lat, lon) ==
  IF ~is_in_bounds(t, lat, lon) THEN None
  ELSE Some(interpolate(t.elevation_grid, t.shape.rows, t.shape.cols,
                        (t.bounds.north - lat) * t.shape.rows,
                        (lon - t.bounds.west) * t.shape.cols,
                        t.bounds.north - t.bounds.south,
                        t.bounds.east - t.bounds.west))

\* float(value) of an elevation kept times den: lattice units, rounded away
\* from zero.
unscaled(e, den) == IF e.ok THEN Some(RoundAway(e.v, den)) ELSE None

\* TerrainSampler.elevation in lattice units.
elevation(t, lat, lon) == unscaled(elevation_scaled(t, lat, lon), ElevDen(t))

\* rise / distance of TerrainSampler.slope in thousandths, for the
\* elevations e1 and e2 (times den) and the squared distance d2: the rise
\* in decimetres over the distance in metres.
rise_over_run(e1, e2, den, d2) ==
  IF ~e1.ok \/ ~e2.ok THEN None
  ELSE IF d2 = 0 THEN Some(0)
  ELSE Some(RoundAway(RoundAway((e2.v - e1.v) * 100, den) * 100, ISqrt(d2 * 100)))

\* TerrainSampler.slope: rise over run in thousandths, None when either
\* elevation is unavailable, 0 when the points are closer than 10 cm.
slope(t, lat1, lon1, lat2, lon2) ==
  rise_over_run(elevation_scaled(t, lat1, lon1), elevation_scaled(t, lat2, lon2),
                ElevDen(t),
                (lon2 - lon1) * (lon2 - lon1) + (lat2 - lat1) * (lat2 - lat1))

\* ----------------------------------------------------------------- models

\* HikerProfile.speed_factor in thousandths; age 0 stands for "no age".
speed_factor(age, skill_level) ==
  LET age_factor == IF age # 0
                    THEN IF age < 18 THEN 800
                         ELSE IF age > 60 THEN 700
                         ELSE IF age > 70 THEN 500
                         ELSE 1000
                    ELSE 1000
  IN  (age_factor * (6 + skill_level)) \div 10

\* HikerProfile.direction_randomness in thousandths.
direction_randomness(skill_level) == 1000 - (skill_level - 1) * 200

\* WeatherConditions.movement_penalty in thousandths; temperature in
\* tenths of a degree, precipitation in tenths of mm/h, wind in tenths of
\* m/s.
movement_penalty(temperature_c, precipitation_mm, wind_speed_ms) ==
  LET cold == IF temperature_c < 0 THEN 200
              ELSE IF temperature_c < -100 THEN 400
              ELSE 0
      heat == IF temperature_c > 300 THEN 200 ELSE 0
      rain == IF precipitation_mm > 0 THEN Min(300, precipitation_mm * 5) ELSE 0
      wind == IF wind_speed_ms > 100 THEN 100 ELSE 0
  IN  Min(800, cold + heat + rain + wind)

\* ------------------------------------------------------------ grid index

\* _latlon_to_index: int() truncates toward zero.
latlon_to_index(lat, lon, t) ==
  [row |-> Trunc((t.bounds.north - lat) * t.shape.rows,
                 t.bounds.north - t.bounds.south),
   col |-> Trunc((lon - t.bounds.west) * t.shape.cols,
                 t.bounds.east - t.bounds.west)]

\* _is_valid_index.
is_valid_index(row, col, shape) ==
  0 <= row /\ row < shape.rows /\ 0 <= col /\ col < shape.cols

\* --------------------------------------------------------- feature masks

\* The rasterized feature sets a run can get: "none" (also what a failed
\* Overpass request yields), "trail" (a trail along the north row and a
\* road in the north-west cell), "river" (a river along the west column and
\* a cliff in the south-east cell), "gorge" (a river and a cliff in every
\* cell).
FeatureKinds == {"none", "trail", "river", "gorge"}

\* OSMFeatureLoader.rasterize_features: four boolean masks of the terrain's
\* shape.
rasterize_features(kind, shape) ==
  LET Mask(P(_, _)) == [r \in 0..(shape.rows - 1) |->
                         [c \in 0..(shape.cols - 1) |-> P(r, c)]]
      TrailAt(r, c) == kind = "trail" /\ r = 0
      RoadAt(r, c) == kind = "trail" /\ r = 0 /\ c = 0
      RiverAt(r, c) == (kind = "river" /\ c = 0) \/ kind = "gorge"
      CliffAt(r, c) == (kind = "river" /\ r = shape.rows - 1 /\ c = shape.cols - 1)
                       \/ kind = "gorge"
  IN  [trails |-> Mask(TrailAt), roads |-> Mask(RoadAt),
       rivers |-> Mask(RiverAt), cliffs |-> Mask(CliffAt), shape |-> shape]

\* ------------------------------------------------------------ step kernel

\* DIRECTIONS of step_single_agent_pure, indexed 0..7: (dx, dy).
DIRECTIONS ==
  [i \in 0..7 |->
    CASE i = 0 -> [dx |-> 0, dy |-> 1]
      [] i = 1 -> [dx |-> 1, dy |-> 1]
      [] i = 2 -> [dx |-> 1, dy |-> 0]
      [] i = 3 -> [dx |-> 1, dy |-> -1]
      [] i = 4 -> [dx |-> 0, dy |-> -1]
      [] i = 5 -> [dx |-> -1, dy |-> -1]
      [] i = 6 -> [dx |-> -1, dy |-> 0]
      [] OTHER -> [dx |-> -1, dy |-> 1]]

\* The feature lookahead of 0.0005 degrees (about 50 m) in lattice units.
FEATURE_LOOKAHEAD == 5

\* The Tobler lookahead of 20 m in lattice units.
TOBLER_LOOKAHEAD == 2

\* The slope factors of the earlier downhill bias: 1.2 downhill, 0.8 uphill.
slope_weight_downhill(w, sl, strategy) ==
  IF sl.ok
  THEN IF sl.v < 0 THEN (w * 12) \div 10 ELSE (w * 8) \div 10
  ELSE w

\* The slope factor of a weight w: 3.0 or 1.2 uphill, 0.8 otherwise, none
\* when the slope is unavailable.
slope_weight(w, sl, strategy) ==
  IF sl.ok
  THEN IF sl.v > 0
       THEN IF strategy = "VE" THEN w * 3 ELSE (w * 12) \div 10
       ELSE (w * 8) \div 10
  ELSE w

\* The trail / road factor of a weight w: 5.0 for RT, 2.0 for the others.
route_weight(w, on_route, strategy) ==
  IF on_route THEN IF strategy = "RT" THEN w * 5 ELSE w * 2 ELSE w

\* The river factor 0.1 of a weight w.
river_weight(w, river) == IF river THEN w \div 10 ELSE w

\* The cliff factor 0.01 of a weight w.
cliff_weight(w, cliff) == IF cliff THEN w \div 100 ELSE w

\* The feature factors of a weight w at the cell idx of the lookahead point.
feature_weight(w, idx, features, strategy) ==
  IF is_valid_index(idx.row, idx.col, features.shape)
  THEN cliff_weight(river_weight(route_weight(w, features.trails[idx.row][idx.col]
                                                   \/ features.roads[idx.row][idx.col],
                                              strategy),
                                 features.rivers[idx.row][idx.col]),
                    features.cliffs[idx.row][idx.col])
  ELSE w

\* The weight of the direction towards (check_lat, check_lon) in millionths
\* (1.0 = 1000000), before the floor.
weight_towards(agent, t, features, check_lat, check_lon) ==
  feature_weight(slope_weight(1000000,
                              slope(t, agent.lat, agent.lon, check_lat, check_lon),
                              agent.strategy),
                 latlon_to_index(check_lat, check_lon, t), features,
                 agent.strategy)

\* The weight of direction d of DIRECTIONS.
direction_weight(agent, t, features, d) ==
  weight_towards(agent, t, features,
                 agent.lat + DIRECTIONS[d].dy * FEATURE_LOOKAHEAD,
                 agent.lon + DIRECTIONS[d].dx * FEATURE_LOOKAHEAD)

\* A weight appended without the floor of 0.01.
unfloored_weight(agent, t, features, d) ==
  direction_weight(agent, t, features, d)

\* max(0.01, weight) for direction d.
floored_weight(agent, t, features, d) ==
  Max(10000, direction_weight(agent, t, features, d))

\* _calculate_direction_weights: the list of the eight weights in
\* millionths, each floored at 0.01; the weight of DIRECTIONS[d] is the
\* (d + 1)-th entry.
calculate_direction_weights(agent, t, features) ==
  <<floored_weight(agent, t, features, 0), floored_weight(agent, t, features, 1),
    floored_weight(agent, t, features, 2), floored_weight(agent, t, features, 3),
    floored_weight(agent, t, features, 4), floored_weight(agent, t, features, 5),
    floored_weight(agent, t, features, 6), floored_weight(agent, t, features, 7)>>

\* sum(weights).
RECURSIVE total_weight(_)
total_weight(weights) ==
  IF weights = <<>> THEN 0 ELSE Head(weights) + total_weight(Tail(weights))

\* 6 * exp(-3.5 * |s + 0.05|) km/h over one timestep of 900 s, in lattice
\* units, for s in thousandths: 1500 m at |s + 0.05| = 0, and a factor
\* exp(-0.175) per 0.05, which halves the value every 0.2 (less than one
\* unit from |s + 0.05| = 1.6 on).
tobler_distance(s) ==
  LET k == (Abs(s + 50) + 25) \div 50
      base == CASE k % 4 = 0 -> 150
                [] k % 4 = 1 -> 126
                [] k % 4 = 2 -> 106
                [] OTHER -> 89
  IN  IF k >= 32 THEN 0 ELSE base \div Pow2(k \div 4)

\* The component of a unit direction scaled by a distance: the diagonal
\* directions are normalised by sqrt(2).
along(component, diagonal, distance) ==
  IF diagonal THEN component * ((distance * 7071) \div 10000)
  ELSE component * distance

\* A time-based abandonment that is tested from the first step on.
stop_prob_from_first_step(steps_taken) ==
  IF steps_taken > 96 THEN 50
  ELSE IF steps_taken > 20 THEN 20
  ELSE 5

\* The stop probability of the time-based abandonment, in thousandths; 0
\* when the test is not made.
stop_prob(steps_taken) ==
  IF steps_taken > 4
  THEN IF steps_taken > 96 THEN 50
       ELSE IF steps_taken > 20 THEN 20
       ELSE 5
  ELSE 0

\* Haversine distance from the centre (0, 0) exceeds the radius: on the
\* planar lattice, the squared Euclidean distance exceeds radius^2.
exceeds_radius(lat, lon, radius) == lat * lat + lon * lon > radius * radius

\* The octant of the normalised direction (dx, dy).  For a DT agent it is
\* the octant of heading + gauss(0, 0.15): the heading's octant turned by
\* the noise.  For the others it is the octant of the chosen DIRECTIONS
\* entry after the Gaussian perturbation of both components.
turned(octant, turn) == (octant + 8 + turn) % 8

\* The random draws of one kernel call: stop (random() < stop_prob), wait
\* (random() < 0.99), idx (random.choices over the eight weights), turn
\* (the effect of the Gaussian noise on the octant of the direction).
Draws == [stop : BOOLEAN, wait : BOOLEAN, idx : 0..7, turn : {-1, 0, 1}]

\* A commit whose energy loss has no floor.
commit_without_floor(agent, t, radius, new_lat, new_lon, new_elevation, s) ==
  [agent |-> [agent EXCEPT
                !.lat = new_lat, !.lon = new_lon,
                !.energy = agent.energy - (5 + (IF s > 0 THEN s \div 20 ELSE 0))],
   log |-> "movement"]

\* An end of the kernel that assigns the candidate position before it
\* validates it.
commit_then_validate(agent, t, radius, new_lat, new_lon, new_elevation, s) ==
  IF ~is_in_bounds(t, new_lat, new_lon)
  THEN [agent |-> [agent EXCEPT !.lat = new_lat, !.lon = new_lon,
                                !.is_active = FALSE],
        log |-> "bounds"]
  ELSE IF exceeds_radius(new_lat, new_lon, radius)
  THEN [agent |-> [agent EXCEPT !.lat = new_lat, !.lon = new_lon,
                                !.is_active = FALSE],
        log |-> "radius"]
  ELSE IF ~new_elevation.ok
  THEN [agent |-> [agent EXCEPT !.lat = new_lat, !.lon = new_lon,
                                !.is_active = FALSE],
        log |-> "no_elevation"]
  ELSE [agent |-> [agent EXCEPT
                     !.lat = new_lat, !.lon = new_lon,
                     !.elevation = new_elevation.v,
                     !.energy = Max(100, agent.energy
                                         - (5 + (IF s > 0 THEN s \div 20 ELSE 0)))],
        log |-> "movement"]

\* The end of step_single_agent_pure for the candidate (new_lat, new_lon)
\* reached under slope s: the bounds check, the radius check, the
\* elevation check, then the commit and the energy loss.
validate_and_commit(agent, t, radius, new_lat, new_lon, new_elevation, s) ==
  IF ~is_in_bounds(t, new_lat, new_lon)
  THEN [agent |-> [agent EXCEPT !.is_active = FALSE], log |-> "bounds"]
  ELSE IF exceeds_radius(new_lat, new_lon, radius)
  THEN [agent |-> [agent EXCEPT !.is_active = FALSE], log |-> "radius"]
  ELSE IF ~new_elevation.ok
  THEN [agent |-> [agent EXCEPT !.is_active = FALSE], log |-> "no_elevation"]
  ELSE [agent |-> [agent EXCEPT
                     !.lat = new_lat, !.lon = new_lon,
                     !.elevation = new_elevation.v,
                     !.energy = Max(100, agent.energy
                                         - (5 + (IF s > 0 THEN s \div 20 ELSE 0)))],
        log |-> "movement"]

\* distance_m in lattice units: Tobler's speed under slope s, times
\* profile_speed / 1.317, (1 - weather_penalty) and energy, over 900 s.
distance_m(s, profile_speed, weather_penalty, energy) ==
  ((((tobler_distance(s) * profile_speed * (1000 - weather_penalty)) \div 1000)
    * energy) \div 1000) \div 1317

\* The candidate position at the given distance along (dx, dy), validated
\* and committed.
move_by(agent, dx, dy, diagonal, t, radius, distance, s) ==
  validate_and_commit(agent, t, radius,
                      agent.lat + along(dy, diagonal, distance),
                      agent.lon + along(dx, diagonal, distance),
                      elevation(t, agent.lat + along(dy, diagonal, distance),
                                agent.lon + along(dx, diagonal, distance)),
                      s)

\* The move under the slope sl of the Tobler lookahead ("or 0.0").
move_under(agent, dx, dy, diagonal, t, profile_speed, weather_penalty, radius, s) ==
  move_by(agent, dx, dy, diagonal, t, radius,
          distance_m(s, profile_speed, weather_penalty, agent.energy), s)

\* sampler.slope(...) or 0.0.
or_zero(sl) == IF sl.ok THEN sl.v ELSE 0

\* The movement part of step_single_agent_pure, from the normalised
\* direction of octant dir to the end.  agent has its step counter
\* incremented already.
move_agent(agent, dir, t, profile_speed, weather_penalty, radius) ==
  move_under(agent, DIRECTIONS[dir].dx, DIRECTIONS[dir].dy, dir % 2 = 1, t,
             profile_speed, weather_penalty, radius,
             or_zero(slope(t, agent.lat, agent.lon,
                           agent.lat + along(DIRECTIONS[dir].dy, dir % 2 = 1,
                                             TOBLER_LOOKAHEAD),
                           agent.lon + along(DIRECTIONS[dir].dx, dir % 2 = 1,
                                             TOBLER_LOOKAHEAD))))

\* step_single_agent_pure after the increment of the step counter: a1 is
\* the agent with steps_taken incremented, weights the result of
\* _calculate_direction_weights for it.
step_counted(a1, d, weights, t, profile_speed, weather_penalty, radius) ==
  IF stop_prob(a1.steps_taken) > 0 /\ d.stop
  THEN [agent |-> [a1 EXCEPT !.is_active = FALSE], log |-> "stop"]
  ELSE IF a1.strategy = "SP" /\ d.wait
  THEN [agent |-> a1, log |-> "wait"]
  ELSE IF a1.strategy = "DT"
  THEN move_agent(a1, turned(a1.heading, d.turn), t,
                  profile_speed, weather_penalty, radius)
  ELSE IF total_weight(weights) < 1000
  THEN [agent |-> [a1 EXCEPT !.is_active = FALSE], log |-> "trapped"]
  ELSE move_agent(a1, turned(d.idx, d.turn), t,
                  profile_speed, weather_penalty, radius)

\* step_single_agent_pure: the agent after one timestep under the draws
\* d, with the kind of its last log event.  weights is what
\* _calculate_direction_weights returns for the agent (the position and
\* the strategy it reads are not changed before the call).
step_single_agent_pure(agent, d, weights, t, profile_speed, weather_penalty, radius) ==
  step_counted([agent EXCEPT !.steps_taken = agent.steps_taken + 1], d, weights,
               t, profile_speed, weather_penalty, radius)

\* The draws the call for an agent of step counter n (incremented) and the
\* given weights can make.  A draw the call does not reach has its first
\* value: nothing is drawn after a stop or a wait, wait is drawn only for
\* SP, stop only when the time-based test is made, idx only for the
\* weighted choice (random.choices never returns an index of weight 0).
DrawsFor(strategy, n, weights) ==
  {d \in Draws :
     /\ d.stop => stop_prob(n) > 0
     /\ d.wait => ~d.stop /\ strategy = "SP"
     /\ (d.stop \/ d.wait) => d.idx = 0 /\ d.turn = 0
     /\ strategy = "DT" => d.idx = 0
     /\ (strategy # "DT" /\ ~d.stop /\ ~d.wait) => weights[d.idx + 1] > 0}

\* Every result one kernel call can have, given the direction weights.
ResultsFor(agent, weights, t, profile_speed, weather_penalty, radius) ==
  {step_single_agent_pure(agent, d, weights, t, profile_speed,
                          weather_penalty, radius) :
     d \in DrawsFor(agent.strategy, agent.steps_taken + 1, weights)}

\* Every result one kernel call can have.
KernelResults(agent, t, features, profile_speed, weather_penalty, radius) ==
  UNION {ResultsFor(agent, weights, t, profile_speed, weather_penalty, radius) :
           weights \in {calculate_direction_weights(agent, t, features)}}

\* -------------------------------------------------------- density reducer

\* scipy.ndimage.gaussian_filter(sigma=0.5): truncate 4.0 gives a radius of
\* int(4 * 0.5 + 0.5) = 2, weights proportional to exp(-2 x^2), here times
\* e^8 and rounded: 1, 403, 2981, 403, 1.
gaussian_weight(k) == CASE k = 0 -> 2981 [] Abs(k) = 1 -> 403 [] OTHER -> 1

gaussian_weight_sum == gaussian_weight(-2) + gaussian_weight(-1) + gaussian_weight(0)
                       + gaussian_weight(1) + gaussian_weight(2)

\* mode='reflect' (d c b a | a b c d | d c b a): the index of the array
\* element read at position i of an array of length n.
reflect(i, n) ==
  LET m == (i + 2 * n) % (2 * n)
  IN  IF m < n THEN m ELSE 2 * n - 1 - m

\* The filter along the rows, then along the columns, each pass with the
\* weights normalised to sum 1; the result is in the unit of a.
gaussian_filter(a, n) ==
  LET pass1 == [r \in 0..(n - 1) |-> [c \in 0..(n - 1) |->
                 (  gaussian_weight(-2) * a[reflect(r - 2, n)][c]
                  + gaussian_weight(-1) * a[reflect(r - 1, n)][c]
                  + gaussian_weight(0) * a[r][c]
                  + gaussian_weight(1) * a[reflect(r + 1, n)][c]
                  + gaussian_weight(2) * a[reflect(r + 2, n)][c])
                 \div gaussian_weight_sum]]
  IN  [r \in 0..(n - 1) |-> [c \in 0..(n - 1) |->
                 (  gaussian_weight(-2) * pass1[r][reflect(c - 2, n)]
                  + gaussian_weight(-1) * pass1[r][reflect(c - 1, n)]
                  + gaussian_weight(0) * pass1[r][c]
                  + gaussian_weight(1) * pass1[r][reflect(c + 1, n)]
                  + gaussian_weight(2) * pass1[r][reflect(c + 2, n)])
                 \div gaussian_weight_sum]]

RECURSIVE SeqMax(_)
SeqMax(q) == IF q = <<>> THEN 0 ELSE Max(Head(q), SeqMax(Tail(q)))

\* density.max() of an n x n array of non-negative values.
grid_max(a, n) ==
  SeqMax([r \in 1..n |-> SeqMax([c \in 1..n |-> a[r - 1][c - 1]])])

\* The output-grid cell of a position: int() and the clamp to [0, G - 1].
grid_cell(agent, t, grid_size) ==
  [row |-> Max(0, Min(Trunc((t.bounds.north - agent.lat) * grid_size,
                            t.bounds.north - t.bounds.south), grid_size - 1)),
   col |-> Max(0, Min(Trunc((agent.lon - t.bounds.west) * grid_size,
                            t.bounds.east - t.bounds.west), grid_size - 1))]

active_ids(agents) == {i \in 1..Len(agents) : agents[i].is_active}

\* A reducer step that leaves the density as it is.
unnormalized(a, n) == a

\* "density /= max_val": values in thousandths (1.0 = 1000).
normalize_grid(a, n) ==
  LET max_val == grid_max(a, n)
  IN  IF max_val > 0
      THEN [r \in 0..(n - 1) |-> [c \in 0..(n - 1) |-> (a[r][c] * 1000) \div max_val]]
      ELSE a

\* The agents of the cell (r, c) among those at the indices ids, in
\* ten-thousandths.
cell_count(agents, ids, t, grid_size, r, c) ==
  10000 * Cardinality({i \in ids :
                         grid_cell(agents[i], t, grid_size) = [row |-> r, col |-> c]})

\* "density /= active_count": the counts divided by the number of agents.
per_agent(count, active_count, n) ==
  [r \in 0..(n - 1) |-> [c \in 0..(n - 1) |-> count[r][c] \div active_count]]

\* np.zeros((grid_size, grid_size)).
zeros(n) == [r \in 0..(n - 1) |-> [c \in 0..(n - 1) |-> 0]]

\* The body of _agents_to_grid for the agents at the indices ids: the
\* counts, the division by the number of agents, the filter and the
\* division by the maximum; the zero grid when there is no agent.
density_grid(agents, ids, t, grid_size) ==
  IF Cardinality(ids) = 0 THEN zeros(grid_size)
  ELSE normalize_grid(
         gaussian_filter(per_agent([r \in 0..(grid_size - 1) |->
                                     [c \in 0..(grid_size - 1) |->
                                       cell_count(agents, ids, t, grid_size, r, c)]],
                                   Cardinality(ids), grid_size),
                         grid_size),
         grid_size)

\* A reducer that counts the stopped agents too.
agents_to_grid_counting_all(agents, t, grid_size) ==
  density_grid(agents, 1..Len(agents), t, grid_size)

\* SARSimulator._agents_to_grid: the grid_size x grid_size grid in
\* thousandths, from the active agents.
agents_to_grid(agents, t, grid_size) ==
  density_grid(agents, active_ids(agents), t, grid_size)

\* SARSimulator._agents_to_heatmap: counts is the raster of the terrain's
\* shape with the active agents of a valid index, active_count their
\* number, points the cells of the smoothed raster above the threshold of
\* 0.0001 with their intensity divided by the greatest, in thousandths
\* (the terrain's shape is square).
agents_to_heatmap(agents, t) ==
  LET n == t.shape.rows
      idx(i) == latlon_to_index(agents[i].lat, agents[i].lon, t)
      counted == {i \in active_ids(agents) :
                    is_valid_index(idx(i).row, idx(i).col, t.shape)}
      counts == [r \in 0..(n - 1) |-> [c \in 0..(n - 1) |->
                   Cardinality({i \in counted : idx(i) = [row |-> r, col |-> c]})]]
      active_count == Cardinality(counted)
      density == gaussian_filter(
                   [r \in 0..(n - 1) |-> [c \in 0..(n - 1) |->
                      (10000 * counts[r][c]) \div Max(1, active_count)]], n)
      max_intensity == grid_max(density, n)
  IN  [counts |-> counts, active_count |-> active_count,
       points |-> IF active_count = 0 THEN {}
                  ELSE {[row |-> rc[1], col |-> rc[2],
                         intensity |-> (density[rc[1]][rc[2]] * 1000)
                                         \div max_intensity] :
                          rc \in {x \in (0..(n - 1)) \X (0..(n - 1)) :
                                    density[x[1]][x[2]] > 1}}]

\* ---------------------------------------------------------------- weather

\* WeatherService.get_conditions: temperature in tenths of a degree,
\* precipitation in tenths of mm/h, wind in tenths of m/s, from the month
\* and hour of the timestamp and the elevation in metres.
get_conditions(month, hour, elevation_m) ==
  LET base_temp == IF month \in {12, 1, 2} THEN -50
                   ELSE IF month \in {3, 4, 5} THEN 100
                   ELSE IF month \in {6, 7, 8} THEN 200
                   ELSE 100
      temp == IF 6 <= hour /\ hour <= 18 THEN base_temp + 50 ELSE base_temp - 50
      wind == 30 + (IF elevation_m # 0 THEN elevation_m \div 50 ELSE 0)
  IN  [temperature_c |-> temp - (IF elevation_m # 0
                                 THEN (elevation_m * 65) \div 1000 ELSE 0),
       precipitation_mm |-> IF elevation_m # 0 /\ elevation_m > 2000 THEN 20 ELSE 0,
       wind_speed_ms |-> Min(200, wind)]

\* ------------------------------------------------------------------ inputs

\* radius_km of the call, in lattice units (10 = 0.1 km).
RadiusChoices == {10}

\* grid_size of the call.
GridSizes == {2}

\* profile of the call.
Profiles == {[age |-> 65, skill_level |-> 1]}

\* time_last_seen and current_time of the call: given says whether both are
\* present, elapsed_seconds is current_time - time_last_seen.
TimeArgs == {[given |-> FALSE, elapsed_seconds |-> 0],
             [given |-> TRUE, elapsed_seconds |-> 36000],
             [given |-> TRUE, elapsed_seconds |-> -27930],
             [given |-> TRUE, elapsed_seconds |-> -30030]}

\* The month and hour of the weather timestamp (current_time, or
\* datetime.now() when it is absent).
Timestamps == {[month |-> 1, hour |-> 12]}

\* The elevation rasters and feature sets of the runs.
RunElevationGrids == {"flat"}

RunFeatureKinds == {"none", "trail"}

\* The draws of _initialize_agents for the i-th agent: the Gaussian
\* offsets of the position (sigma = 0.001 / 3 degrees, about 3.7 units),
\* the strategy (from r = random() * 100) and the octant of the uniform
\* heading.
InitChoices(i) ==
  IF i = 1
  THEN {[dlat |-> -11, dlon |-> 0, strategy |-> "SP", heading |-> 4],
        [dlat |-> 0, dlon |-> -18, strategy |-> "DT", heading |-> 2]}
  ELSE {[dlat |-> 0, dlon |-> 0, strategy |-> "RT", heading |-> 0],
        [dlat |-> 0, dlon |-> -18, strategy |-> "DT", heading |-> 2]}

\* tracked_id = None.
NoAgent == -1

\* ------------------------------------------------------------------- state

VARIABLES
  pc,                \* where run_simulation is
  parallel,          \* settings.parallel_agents and settings.max_workers > 1
  time_args,         \* time_last_seen / current_time of the call
  radius,            \* radius_km of the call
  grid_size,         \* grid_size of the call
  profile,           \* profile of the call
  loaded,            \* which of terrain, features, weather have been loaded
  terrain,           \* the TerrainModel
  features,          \* the FeatureMasks
  weather,           \* the WeatherConditions
  num_steps,         \* num_steps of run_simulation
  step,              \* the loop variable: timesteps completed
  agents,            \* the agent list
  tracked_id,        \* AgentTracker.tracked_id
  time_slices,       \* the TimeSlice list
  result,            \* the SimulationResult returned, if any
  cancel_requested,  \* the caller has asked for the run to be cancelled
  faults,            \* history: the ids of the agents whose kernel call raised
  stepped,           \* history: the ids handed to the kernel in the last timestep
  active_counts,     \* history: the active agents after each timestep
  rng,               \* the state of the random module's generator
  twin,              \* a second run of the same call, for comparison
  call,              \* the function applied on its own and its arguments
  value,             \* what that function returned
  memory_cache,      \* MeritDEMLoader._memory_cache: tile key -> CachedTile
  cache_order,       \* MeritDEMLoader._cache_order
  recency            \* history: the tile keys by their last load or hit

vars == <<pc, parallel, time_args, radius, grid_size, profile, loaded, terrain,
          features, weather, num_steps, step, agents, tracked_id, time_slices,
          result, cancel_requested, faults, stepped, active_counts, rng, twin,
          call, value, memory_cache, cache_order, recency>>

\* The variables a single run of run_simulation does not use.
aside == <<rng, twin, call, value, memory_cache, cache_order, recency>>

\* No second run, no function applied on its own.
NoTwin == [running |-> FALSE]

NoCall == [fn |-> "none"]

NoResult == [returned |-> FALSE, time_slices |-> <<>>, final_positions |-> <<>>]

NoWeather == [temperature_c |-> 150, precipitation_mm |-> 0, wind_speed_ms |-> 0]

Init ==
  /\ pc = "load_terrain"
  /\ parallel \in BOOLEAN
  /\ time_args \in TimeArgs
  /\ radius \in RadiusChoices
  /\ grid_size \in GridSizes
  /\ profile \in Profiles
  /\ loaded = {}
  /\ terrain = load_terrain(0, "flat")
  /\ features = rasterize_features("none", terrain.shape)
  /\ weather = NoWeather
  /\ num_steps = 0
  /\ step = 0
  /\ agents = <<>>
  /\ tracked_id = NoAgent
  /\ time_slices = <<>>
  /\ result = NoResult
  /\ cancel_requested = FALSE
  /\ faults = {}
  /\ stepped = {}
  /\ active_counts = <<>>
  /\ rng = 0
  /\ twin = NoTwin
  /\ call = NoCall
  /\ value = NoCall
  /\ memory_cache = <<>>
  /\ cache_order = <<>>
  /\ recency = <<>>

\* ----------------------------------------------------------------- tracker

\* AgentTracker._select_random_agent: the ids random.choice can pick, or
\* None when no agent is active.
select_random_agent(ags) ==
  IF active_ids(ags) # {}
  THEN {ags[i].id : i \in active_ids(ags)}
  ELSE {NoAgent}

\* AgentTracker._get_tracked_agent found an active agent.
tracked_is_active(ags, tid) ==
  tid # NoAgent /\ \E i \in active_ids(ags) : ags[i].id = tid

\* A tracker that never leaves the agent it has chosen.
log_step_start_keeping(ags, tid) == {tid}

\* AgentTracker.log_step_start: the values tracked_id can have afterwards.
log_step_start(ags, tid) ==
  IF tracked_is_active(ags, tid) THEN {tid} ELSE select_random_agent(ags)

\* ------------------------------------------------------------ orchestrator

\* list.sort(key=lambda a: a.id): the agent of least id first.
RECURSIVE SortById(_)
SortById(q) ==
  IF q = <<>> THEN <<>>
  ELSE LET m == CHOOSE i \in 1..Len(q) : \A j \in 1..Len(q) : q[i].id <= q[j].id
       IN  <<q[m]>> \o SortById(SubSeq(q, 1, m - 1) \o SubSeq(q, m + 1, Len(q)))

\* A split that hands every agent to the kernel as an active one.
Filtered_reviving(q, flag) ==
  IF flag THEN [i \in 1..Len(q) |-> [q[i] EXCEPT !.is_active = TRUE]] ELSE <<>>

\* The agents of a list that satisfy / do not satisfy is_active, in order.
RECURSIVE Filtered(_, _)
Filtered(q, flag) ==
  IF q = <<>> THEN <<>>
  ELSE (IF Head(q).is_active = flag THEN <<Head(q)>> ELSE <<>>)
       \o Filtered(Tail(q), flag)

\* The active agents other than the tracked one, in order.
RECURSIVE Others(_, _)
Others(q, tid) ==
  IF q = <<>> THEN <<>>
  ELSE (IF Head(q).id # tid THEN <<Head(q)>> ELSE <<>>) \o Others(Tail(q), tid)

\* What the kernel needs besides the agent.
KernelContext(t, f, p, w, r) ==
  [terrain |-> t, features |-> f,
   profile_speed |-> speed_factor(p.age, p.skill_level),
   weather_penalty |-> movement_penalty(w.temperature_c, w.precipitation_mm,
                                        w.wind_speed_ms),
   radius |-> r]

\* One call of step_single_agent_pure as _step_agents sees it: a returned
\* agent with the kind of the last log event, or an exception (the agent is
\* then as it was handed in).
KernelOutcomes(agent, ctx, can_raise) ==
  {[raised |-> FALSE, agent |-> r.agent, log |-> r.log] :
     r \in KernelResults(agent, ctx.terrain, ctx.features, ctx.profile_speed,
                         ctx.weather_penalty, ctx.radius)}
  \cup (IF can_raise THEN {[raised |-> TRUE, agent |-> agent, log |-> "raised"]}
        ELSE {})

\* The outcomes of the kernel calls for the agents of order, at most budget
\* of them raising.  In the serial loop the first exception ends the calls;
\* every future of the process pool is collected.
RECURSIVE OutcomeSeqs(_, _, _, _)
OutcomeSeqs(order, ctx, budget, serial) ==
  IF order = <<>> THEN {<<>>}
  ELSE UNION
    {IF o.raised /\ serial THEN {<<o>>}
     ELSE {<<o>> \o rest :
             rest \in OutcomeSeqs(Tail(order), ctx,
                                  budget - (IF o.raised THEN 1 ELSE 0), serial)} :
       o \in KernelOutcomes(Head(order), ctx, budget > 0)}

\* The agents of a sequence of outcomes that were returned.
RECURSIVE Returned(_)
Returned(os) ==
  IF os = <<>> THEN <<>>
  ELSE (IF Head(os).raised THEN <<>> ELSE <<Head(os).agent>>) \o Returned(Tail(os))

\* The ids of the agents whose call raised.
Failed(os) == {os[i].agent.id : i \in {j \in 1..Len(os) : os[j].raised}}

\* The list ags with the agents of updated in place of those of the same id.
Mutated(ags, updated) ==
  [i \in 1..Len(ags) |->
     IF \E j \in 1..Len(updated) : updated[j].id = ags[i].id
     THEN updated[CHOOSE j \in 1..Len(updated) : updated[j].id = ags[i].id]
     ELSE ags[i]]

\* The ids of the agents of a list.
Ids(q) == {q[i].id : i \in 1..Len(q)}

\* _step_agents: every way one timestep can end.  raised says that an
\* exception left _step_agents; agents is then the list with the agents
\* the kernel has already mutated.
step_agents(ags, tid, par, ctx, budget) ==
  LET active_agents == Filtered(ags, TRUE)
      inactive_agents == Filtered(ags, FALSE)
      has_tracked == tid # NoAgent /\ tid \in Ids(active_agents)
      tracked_agent == IF has_tracked
                       THEN <<active_agents[CHOOSE i \in 1..Len(active_agents) :
                                              active_agents[i].id = tid]>>
                       ELSE <<>>
      other_agents == IF has_tracked THEN Others(active_agents, tid)
                      ELSE active_agents
      Rest(first) ==
        {IF ~par /\ Failed(os) # {}
         THEN [agents |-> Mutated(ags, first \o Returned(os)), raised |-> TRUE,
               faults |-> Failed(os),
               stepped |-> Ids(first) \cup {os[i].agent.id : i \in 1..Len(os)}]
         ELSE [agents |-> SortById(first \o Returned(os) \o inactive_agents),
               raised |-> FALSE, faults |-> Failed(os),
               stepped |-> Ids(active_agents)] :
           os \in OutcomeSeqs(other_agents, ctx, budget, ~par)}
  IN  IF active_agents = <<>>
      THEN {[agents |-> ags, raised |-> FALSE, faults |-> {}, stepped |-> {}]}
      ELSE IF has_tracked
      THEN UNION
        {IF o.raised
         THEN {[agents |-> ags, raised |-> TRUE, faults |-> {tid},
                stepped |-> {tid}]}
         ELSE Rest(<<o.agent>>) :
           o \in KernelOutcomes(tracked_agent[1], ctx, budget > 0)}
      ELSE Rest(<<>>)

\* ------------------------------------------------------------------ driver

\* The duration computation of run_simulation: num_steps from the time
\* arguments.
simulation_steps(ta) ==
  LET elapsed_minutes == IF ta.given THEN Trunc(ta.elapsed_seconds, 60) ELSE 0
      total_minutes == Min(elapsed_minutes + 8 * 60, 480)
  IN  FloorDiv(total_minutes, timestep_minutes)

\* _initialize_agents: the list for the draws c[1], ..., c[n].
initialize_agents(t, c, n) ==
  [i \in 1..n |->
     LET e == elevation(t, c[i].dlat, c[i].dlon)
     IN  [id |-> i - 1, lat |-> c[i].dlat, lon |-> c[i].dlon,
          elevation |-> IF e.ok THEN e.v ELSE 0,
          strategy |-> c[i].strategy, heading |-> c[i].heading,
          steps_taken |-> 0, energy |-> 1000, is_active |-> TRUE]]

\* final_positions: the (lat, lon) of the active agents.
final_positions(ags) ==
  LET act == Filtered(ags, TRUE)
  IN  [i \in 1..Len(act) |-> [lat |-> act[i].lat, lon |-> act[i].lon]]

\* A driver that catches the exception of the elevation provider and goes
\* on with a flat terrain of its own.
LoadTerrain_swallowing ==
  /\ pc = "load_terrain"
  /\ \/ /\ \E kind \in RunElevationGrids : terrain' = load_terrain(radius, kind)
        /\ loaded' = loaded \cup {"terrain"}
     \/ /\ terrain' = load_terrain(radius, "flat")
        /\ UNCHANGED loaded
  /\ pc' = "fetch_features"
  /\ UNCHANGED <<parallel, time_args, radius, grid_size, profile, features,
                 weather, num_steps, step, agents, tracked_id, time_slices,
                 result, cancel_requested, faults, stepped, active_counts>>
  /\ UNCHANGED aside

\* TerrainPipeline.load_terrain returns the terrain model, or the elevation
\* provider raises and the exception leaves run_simulation.
LoadTerrain ==
  /\ pc = "load_terrain"
  /\ \/ /\ \E kind \in RunElevationGrids : terrain' = load_terrain(radius, kind)
        /\ loaded' = loaded \cup {"terrain"}
        /\ pc' = "fetch_features"
     \/ /\ pc' = "error"
        /\ UNCHANGED <<terrain, loaded>>
  /\ UNCHANGED <<parallel, time_args, radius, grid_size, profile, features,
                 weather, num_steps, step, agents, tracked_id, time_slices,
                 result, cancel_requested, faults, stepped, active_counts>>
  /\ UNCHANGED aside

\* fetch_features and rasterize_features: a failed fetch is an empty
\* feature set, never an exception.
FetchFeatures ==
  /\ pc = "fetch_features"
  /\ \E kind \in RunFeatureKinds :
       features' = rasterize_features(kind, terrain.shape)
  /\ loaded' = loaded \cup {"features"}
  /\ pc' = "get_weather"
  /\ UNCHANGED <<parallel, time_args, radius, grid_size, profile, terrain,
                 weather, num_steps, step, agents, tracked_id, time_slices,
                 result, cancel_requested, faults, stepped, active_counts>>
  /\ UNCHANGED aside

\* WeatherService.get_conditions at the centre's elevation (1000 m when the
\* sampler has none).
GetWeather ==
  /\ pc = "get_weather"
  /\ \E ts \in Timestamps :
       LET e == elevation(terrain, 0, 0)
           elevation_m == IF e.ok /\ e.v # 0 THEN e.v * 10 ELSE 1000
       IN  weather' = get_conditions(ts.month, ts.hour, elevation_m)
  /\ loaded' = loaded \cup {"weather"}
  /\ pc' = "initialize"
  /\ UNCHANGED <<parallel, time_args, radius, grid_size, profile, terrain,
                 features, num_steps, step, agents, tracked_id, time_slices,
                 result, cancel_requested, faults, stepped, active_counts>>
  /\ UNCHANGED aside

\* The duration computation, _initialize_agents and AgentTracker.__init__.
InitializeAgents ==
  /\ pc = "initialize"
  /\ num_steps' = simulation_steps(time_args)
  /\ \E c \in {f \in [1..NumAgents -> UNION {InitChoices(i) : i \in 1..NumAgents}] :
                 \A i \in 1..NumAgents : f[i] \in InitChoices(i)} :
       agents' = initialize_agents(terrain, c, NumAgents)
  /\ tracked_id' \in select_random_agent(agents')
  /\ pc' = "loop"
  /\ UNCHANGED <<parallel, time_args, radius, grid_size, profile, loaded,
                 terrain, features, weather, step, time_slices, result,
                 cancel_requested, faults, stepped, active_counts>>
  /\ UNCHANGED aside

\* One iteration of the simulation loop: log_step_start, _step_agents,
\* _agents_to_heatmap, _agents_to_grid and the append of the TimeSlice; or an exception of
\* _step_agents leaves run_simulation.
LoopStep ==
  /\ pc = "loop"
  /\ step < num_steps
  /\ \E tid \in log_step_start(agents, tracked_id) :
       \E out \in step_agents(agents, tid, parallel,
                              KernelContext(terrain, features, profile, weather,
                                            radius),
                              MaxKernelFaults - Cardinality(faults)) :
         /\ tracked_id' = tid
         /\ agents' = out.agents
         /\ faults' = faults \cup out.faults
         /\ stepped' = out.stepped
         /\ IF out.raised
            THEN /\ pc' = "error"
                 /\ UNCHANGED <<step, time_slices, active_counts>>
            ELSE /\ time_slices' =
                      Append(time_slices,
                             [time_offset_minutes |-> step * timestep_minutes,
                              points |-> agents_to_heatmap(out.agents,
                                                           terrain).points,
                              grid |-> agents_to_grid(out.agents, terrain,
                                                      grid_size)])
                 /\ active_counts' =
                      Append(active_counts, Cardinality(active_ids(out.agents)))
                 /\ step' = step + 1
                 /\ pc' = "loop"
  /\ UNCHANGED <<parallel, time_args, radius, grid_size, profile, loaded,
                 terrain, features, weather, num_steps, result,
                 cancel_requested>>
  /\ UNCHANGED aside

\* The end of the loop: final_positions and the return of the result.
Return ==
  /\ pc = "loop"
  /\ step >= num_steps
  /\ result' = [returned |-> TRUE, time_slices |-> time_slices,
                final_positions |-> final_positions(agents)]
  /\ pc' = "returned"
  /\ UNCHANGED <<parallel, time_args, radius, grid_size, profile, loaded,
                 terrain, features, weather, num_steps, step, agents,
                 tracked_id, time_slices, cancel_requested, faults, stepped,
                 active_counts>>
  /\ UNCHANGED aside

\* The caller asks for the run to be cancelled between two timesteps.
RequestCancel ==
  /\ pc = "loop"
  /\ 0 < step /\ step <= MaxCancelStep
  /\ ~cancel_requested
  /\ cancel_requested' = TRUE
  /\ UNCHANGED <<pc, parallel, time_args, radius, grid_size, profile, loaded,
                 terrain, features, weather, num_steps, step, agents,
                 tracked_id, time_slices, result, faults, stepped,
                 active_counts>>
  /\ UNCHANGED aside

Next ==
  \/ LoadTerrain
  \/ FetchFeatures
  \/ GetWeather
  \/ InitializeAgents
  \/ LoopStep
  \/ Return
  \/ RequestCancel

Spec == Init /\ [][Next]_vars

\* ------------------------------------------------------- the kernel alone

\* The radii and terrains the kernel is applied under; on the wide terrain
\* it is applied to the agents that keep their heading or stay put.
KernelTerrains ==
  {[radius |-> 10, kind |-> "flat"], [radius |-> 10, kind |-> "ramp"],
   [radius |-> 10, kind |-> "hole"], [radius |-> 40, kind |-> "flat"]}

\* The draws of _initialize_agents for the agent the kernel is applied to.
KernelInitChoices ==
  [dlat : {0}, dlon : {0}, strategy : Strategies, heading : {0, 2}]

\* One agent as _initialize_agents leaves it, with terrain, features and
\* weather loaded; a staying-put agent may have waited 17 or 93 timesteps
\* already (its position and energy are then still the initial ones); it
\* is then on the narrow terrain under the empty feature set.  The kernel
\* reads no feature mask for a direction-traveling agent, which is applied
\* under the empty feature set only; the gorge is on the narrow terrain.
KernelInit ==
  /\ pc = "kernel"
  /\ parallel = FALSE
  /\ time_args = [given |-> FALSE, elapsed_seconds |-> 0]
  /\ \E kt \in KernelTerrains :
       /\ radius = kt.radius
       /\ terrain = load_terrain(kt.radius, kt.kind)
  /\ grid_size \in GridSizes
  /\ profile \in Profiles
  /\ loaded = {"terrain", "features", "weather"}
  /\ \E kind \in FeatureKinds : features = rasterize_features(kind, terrain.shape)
  /\ \E ts \in Timestamps : weather = get_conditions(ts.month, ts.hour, 3600)
  /\ num_steps = 0
  /\ step = 0
  /\ \E c \in KernelInitChoices, waited \in {0, 17, 93} :
       /\ radius = 40 => c.strategy \in {"DT", "SP"}
       /\ waited > 0 => c.strategy = "SP" /\ radius = 10
       /\ (c.strategy = "DT" \/ waited > 0) =>
            features = rasterize_features("none", terrain.shape)
       /\ radius = 40 => features # rasterize_features("gorge", terrain.shape)
       /\ agents = <<[initialize_agents(terrain, <<c>>, 1)[1]
                        EXCEPT !.steps_taken = waited]>>
  /\ tracked_id = NoAgent
  /\ time_slices = <<>>
  /\ result = NoResult
  /\ cancel_requested = FALSE
  /\ faults = {}
  /\ stepped = {}
  /\ active_counts = <<>>
  /\ rng = 0
  /\ twin = NoTwin
  /\ call = NoCall
  /\ value = NoCall
  /\ memory_cache = <<>>
  /\ cache_order = <<>>
  /\ recency = <<>>

\* One call of step_single_agent_pure for the agent, while it is active;
\* value keeps the stop probability the call used and the kind of its last
\* log event.
KernelStep ==
  /\ pc = "kernel"
  /\ step < MaxKernelSteps
  /\ agents[1].is_active
  /\ \E out \in KernelOutcomes(agents[1],
                                KernelContext(terrain, features, profile, weather,
                                              radius),
                                FALSE) :
       /\ agents' = <<out.agent>>
       /\ value' = [fn |-> "step_single_agent_pure",
                    stop_prob |-> stop_prob(agents[1].steps_taken + 1),
                    log |-> out.log]
  /\ step' = step + 1
  /\ stepped' = {agents[1].id}
  /\ UNCHANGED <<pc, parallel, time_args, radius, grid_size, profile, loaded,
                 terrain, features, weather, num_steps, tracked_id, time_slices,
                 result, cancel_requested, faults, active_counts>>
  /\ UNCHANGED <<rng, twin, call, memory_cache, cache_order, recency>>

KernelNext == KernelStep

KernelSpec == KernelInit /\ [][KernelNext]_vars

\* ---------------------------------------------------- the seeded generator

\* The random module's generator, seeded by random.seed: a state out of
\* RngStates, advanced by every draw; the stream of draws is a function of
\* the seed alone.
RngStates == 16

Seeds == 0..(RngStates - 1)

\* The state after one draw.
rng_next(x) == (5 * x + 3) % RngStates

\* The state after k draws.
RECURSIVE rng_skip(_, _)
rng_skip(x, k) == IF k <= 0 THEN x ELSE rng_skip(rng_next(x), k - 1)

\* random.random() drawn in state x, in thousandths.
random_unit(x) == (x * 1000) \div RngStates

\* The effect on the octant of a random.gauss drawn in state x: the lowest
\* and the highest eighth of the draws turn the direction.
gauss_turn(x) ==
  IF 8 * x < RngStates THEN -1 ELSE IF 8 * x >= 7 * RngStates THEN 1 ELSE 0

\* random.gauss(0, spread / 3) drawn in state x, in lattice units.
gauss_offset(x) == (8 * x) \div RngStates - 4

\* The strategy of _initialize_agents for r = random() * 100 drawn in
\* state x.
strategy_of(x) ==
  LET r == (x * 100000) \div RngStates
  IN  IF r < 55900 THEN "DT"
      ELSE IF r < 93600 THEN "RT"
      ELSE IF r < 99100 THEN "RW"
      ELSE IF r < 99700 THEN "VE"
      ELSE "SP"

\* random.choices over the weights: the index (from i) of the first weight
\* whose cumulative sum exceeds target.
RECURSIVE bisect(_, _, _)
bisect(weights, target, i) ==
  IF Len(weights) <= 1 \/ target < Head(weights) THEN i
  ELSE bisect(Tail(weights), target - Head(weights), i + 1)

\* random.choices(range(8), weights) drawn in state x.
choices(weights, x) ==
  bisect(weights, (x * total_weight(weights)) \div RngStates, 0)

\* The four draws of _initialize_agents for one agent, from state x: the
\* two Gaussian offsets, the strategy and the octant of the heading.
seeded_choice(x) ==
  [dlat |-> gauss_offset(x), dlon |-> gauss_offset(rng_skip(x, 1)),
   strategy |-> strategy_of(rng_skip(x, 2)),
   heading |-> (8 * rng_skip(x, 3)) \div RngStates]

\* _initialize_agents drawing from state x.
seeded_initialize_agents(t, x, n) ==
  initialize_agents(t, [i \in 1..n |-> seeded_choice(rng_skip(x, 4 * (i - 1)))], n)

\* random.choice(active) of AgentTracker._select_random_agent drawn in
\* state x; nothing is drawn when no agent is active.
seeded_select(active, x) ==
  IF active = <<>> THEN [tracked_id |-> NoAgent, rng |-> x]
  ELSE [tracked_id |-> active[(x * Len(active)) \div RngStates + 1].id,
        rng |-> rng_next(x)]

\* AgentTracker.log_step_start drawing from state x.
seeded_log_step_start(ags, tid, x) ==
  IF tracked_is_active(ags, tid) THEN [tracked_id |-> tid, rng |-> x]
  ELSE seeded_select(Filtered(ags, TRUE), x)

\* The draws of the direction: one gauss for a DT agent; random.choices
\* and two gauss for the others.  x is the state they start from.
direction_draws(strategy, weights, x) ==
  IF strategy = "DT"
  THEN [d |-> [stop |-> FALSE, wait |-> FALSE, idx |-> 0, turn |-> gauss_turn(x)],
        rng |-> rng_next(x)]
  ELSE [d |-> [stop |-> FALSE, wait |-> FALSE, idx |-> choices(weights, x),
               turn |-> Max(-1, Min(1, gauss_turn(rng_skip(x, 1))
                                       + gauss_turn(rng_skip(x, 2))))],
        rng |-> rng_skip(x, 3)]

\* The draws from the SP test on: random() < 0.99 for an SP agent.
wait_draws(strategy, weights, x) ==
  IF strategy = "SP"
  THEN IF random_unit(x) < 990
       THEN [d |-> [stop |-> FALSE, wait |-> TRUE, idx |-> 0, turn |-> 0],
             rng |-> rng_next(x)]
       ELSE direction_draws(strategy, weights, rng_next(x))
  ELSE direction_draws(strategy, weights, x)

\* The draws of one call of step_single_agent_pure for an agent of step
\* counter n (incremented), from state x, and the state they leave.
seeded_draws(strategy, n, weights, x) ==
  IF stop_prob(n) > 0
  THEN IF random_unit(x) < stop_prob(n)
       THEN [d |-> [stop |-> TRUE, wait |-> FALSE, idx |-> 0, turn |-> 0],
             rng |-> rng_next(x)]
       ELSE wait_draws(strategy, weights, rng_next(x))
  ELSE wait_draws(strategy, weights, x)

\* step_single_agent_pure under the draws dr.
seeded_result(agent, dr, weights, ctx) ==
  [agent |-> step_single_agent_pure(agent, dr.d, weights, ctx.terrain,
                                    ctx.profile_speed, ctx.weather_penalty,
                                    ctx.radius).agent,
   rng |-> dr.rng]

\* step_single_agent_pure with the given direction weights, drawing from
\* state x.
seeded_kernel_with(agent, weights, ctx, x) ==
  seeded_result(agent,
                seeded_draws(agent.strategy, agent.steps_taken + 1, weights, x),
                weights, ctx)

\* step_single_agent_pure drawing from state x: the agent and the state of
\* the generator afterwards.
seeded_kernel(agent, ctx, x) ==
  seeded_kernel_with(agent,
                     calculate_direction_weights(agent, ctx.terrain, ctx.features),
                     ctx, x)

\* The serial loop of _step_agents: the calls share the generator.
RECURSIVE serial_steps(_, _, _)
serial_steps(order, ctx, x) ==
  IF order = <<>> THEN [agents |-> <<>>, rng |-> x]
  ELSE LET o == seeded_kernel(Head(order), ctx, x)
           rest == serial_steps(Tail(order), ctx, o.rng)
       IN  [agents |-> <<o.agent>> \o rest.agents, rng |-> rest.rng]

\* The process pool of _step_agents: the generator of every worker process
\* is seeded again from the operating system's entropy when the process is
\* forked, so each call draws from an arbitrary state.
RECURSIVE parallel_steps(_, _)
parallel_steps(order, ctx) ==
  IF order = <<>> THEN {<<>>}
  ELSE {<<seeded_kernel(Head(order), ctx, s).agent>> \o rest :
          s \in Seeds, rest \in parallel_steps(Tail(order), ctx)}

\* The calls of _step_agents for the other agents after the tracked one
\* (first, empty when none is tracked) has left the generator in state x.
seeded_others(first, other_agents, inactive_agents, par, ctx, x) ==
  IF par
  THEN {[agents |-> SortById(first \o r \o inactive_agents), rng |-> x] :
          r \in parallel_steps(other_agents, ctx)}
  ELSE {[agents |-> SortById(first \o r.agents \o inactive_agents), rng |-> r.rng] :
          r \in {serial_steps(other_agents, ctx, x)}}

\* _step_agents drawing from state x: the agent lists and generator states
\* one timestep can end with.
seeded_step_agents(ags, tid, par, ctx, x) ==
  IF Filtered(ags, TRUE) = <<>> THEN {[agents |-> ags, rng |-> x]}
  ELSE IF tid # NoAgent /\ tid \in Ids(Filtered(ags, TRUE))
  THEN UNION
    {seeded_others(<<o.agent>>, Others(Filtered(ags, TRUE), tid),
                   Filtered(ags, FALSE), par, ctx, o.rng) :
       o \in {seeded_kernel(ags[CHOOSE i \in 1..Len(ags) : ags[i].id = tid],
                            ctx, x)}}
  ELSE seeded_others(<<>>, Filtered(ags, TRUE), Filtered(ags, FALSE), par, ctx, x)

\* ------------------------------------------------ two runs of the same call

\* The wall-clock times datetime.now() can give: a winter and a summer noon.
WallClocks == {[month |-> 1, hour |-> 12], [month |-> 7, hour |-> 12]}

\* The radius of the compared runs, in lattice units (0.6 km).
TwinRadii == {60}

\* get_conditions for the timestamp ts at the elevation of the centre
\* (1000 m when the sampler has none).
center_weather(t, ts) ==
  LET e == elevation(t, 0, 0)
  IN  get_conditions(ts.month, ts.hour, IF e.ok /\ e.v # 0 THEN e.v * 10 ELSE 1000)

\* The tracker's first selection for the agents ags, from state x.
tracked_run(w, ags, x) ==
  [weather |-> w, agents |-> ags,
   tracked_id |-> seeded_select(Filtered(ags, TRUE), x).tracked_id,
   rng |-> seeded_select(Filtered(ags, TRUE), x).rng,
   time_slices |-> <<>>]

\* run_simulation up to the loop, for the weather timestamp ts and the
\* generator in state x: weather, agents and tracker.
start_run(t, ts, x) ==
  tracked_run(center_weather(t, ts), seeded_initialize_agents(t, x, NumAgents),
              rng_skip(x, 4 * NumAgents))

\* The run after _step_agents has returned o in timestep k.
stepped_run(run, tid, o, t, gs, k) ==
  [run EXCEPT !.tracked_id = tid, !.agents = o.agents, !.rng = o.rng,
              !.time_slices = Append(@, [time_offset_minutes |-> k * timestep_minutes,
                                         grid |-> agents_to_grid(o.agents, t, gs)])]

\* The loop body after log_step_start has returned sel.
selected_timestep(run, sel, par, t, f, p, r, gs, k) ==
  {stepped_run(run, sel.tracked_id, o, t, gs, k) :
     o \in seeded_step_agents(run.agents, sel.tracked_id, par,
                              KernelContext(t, f, p, run.weather, r), sel.rng)}

\* One iteration of the loop of run_simulation: the runs it can lead to.
timestep(run, par, t, f, p, r, gs, k) ==
  selected_timestep(run,
                    seeded_log_step_start(run.agents, run.tracked_id, run.rng),
                    par, t, f, p, r, gs, k)

\* The caller has seeded the generator; run_simulation has not been called.
TwinInit ==
  /\ pc = "twin"
  /\ parallel = FALSE
  /\ time_args \in {[given |-> FALSE, elapsed_seconds |-> 0],
                    [given |-> TRUE, elapsed_seconds |-> 36000]}
  /\ radius \in TwinRadii
  /\ grid_size \in GridSizes
  /\ profile \in Profiles
  /\ loaded = {}
  /\ terrain = load_terrain(0, "flat")
  /\ features = rasterize_features("none", terrain.shape)
  /\ weather = NoWeather
  /\ num_steps = 0
  /\ step = 0
  /\ agents = <<>>
  /\ tracked_id = NoAgent
  /\ time_slices = <<>>
  /\ result = NoResult
  /\ cancel_requested = FALSE
  /\ faults = {}
  /\ stepped = {}
  /\ active_counts = <<>>
  /\ rng \in Seeds
  /\ twin = NoTwin
  /\ call = NoCall
  /\ value = NoCall
  /\ memory_cache = <<>>
  /\ cache_order = <<>>
  /\ recency = <<>>

\* run_simulation is called twice with the same arguments, each time with
\* the generator seeded alike: the first run in sequential mode, the second
\* in either mode, at wall-clock times of their own.  Both load the
\* terrain, the features and the weather and initialize agents and tracker.
TwinStart ==
  /\ pc = "twin"
  /\ pc' = "twin_loop"
  /\ terrain' = load_terrain(radius, "flat")
  /\ \E kind \in RunFeatureKinds :
       features' = rasterize_features(kind, terrain'.shape)
  /\ loaded' = {"terrain", "features", "weather"}
  /\ num_steps' = simulation_steps(time_args)
  /\ \E ts \in Timestamps : \E c1 \in WallClocks : \E c2 \in WallClocks :
     \E par \in BOOLEAN :
     \E r1 \in {start_run(terrain', IF time_args.given THEN ts ELSE c1, rng)} :
     \E r2 \in {start_run(terrain', IF time_args.given THEN ts ELSE c2, rng)} :
       /\ weather' = r1.weather
       /\ agents' = r1.agents
       /\ tracked_id' = r1.tracked_id
       /\ rng' = r1.rng
       /\ twin' = [running |-> TRUE, parallel |-> par, run |-> r2]
  /\ UNCHANGED <<parallel, time_args, radius, grid_size, profile, step,
                 time_slices, result, cancel_requested, faults, stepped,
                 active_counts, call, value, memory_cache, cache_order,
                 recency>>

\* Both runs make one iteration of the loop.
TwinStep ==
  /\ pc = "twin_loop"
  /\ step < num_steps
  /\ step < MaxTwinSteps
  /\ \E r1 \in timestep([weather |-> weather, agents |-> agents,
                         tracked_id |-> tracked_id, rng |-> rng,
                         time_slices |-> time_slices],
                        parallel, terrain, features, profile, radius,
                        grid_size, step) :
     \E r2 \in timestep(twin.run, twin.parallel, terrain, features, profile,
                        radius, grid_size, step) :
       /\ agents' = r1.agents
       /\ tracked_id' = r1.tracked_id
       /\ rng' = r1.rng
       /\ time_slices' = r1.time_slices
       /\ twin' = [twin EXCEPT !.run = r2]
  /\ step' = step + 1
  /\ UNCHANGED <<pc, parallel, time_args, radius, grid_size, profile, loaded,
                 terrain, features, weather, num_steps, result,
                 cancel_requested, faults, stepped, active_counts, call, value,
                 memory_cache, cache_order, recency>>

TwinNext == TwinStart \/ TwinStep

TwinSpec == TwinInit /\ [][TwinNext]_vars

\* ---------------------------------------------- the functions on their own

\* The variables of a run of run_simulation.
run_vars == <<pc, parallel, time_args, radius, grid_size, profile, loaded,
              terrain, features, weather, num_steps, step, agents, tracked_id,
              time_slices, result, cancel_requested, faults, stepped,
              active_counts>>

\* The terrains the functions are applied to.
CallTerrains == {load_terrain(10, kind) : kind \in ElevationGrids}

\* The coordinates the functions are applied to: the terrain's extent and
\* two units beyond each edge.
CallLats(t) == (t.bounds.south - 2)..(t.bounds.north + 2)

CallLons(t) == (t.bounds.west - 2)..(t.bounds.east + 2)

\* Gender.
Genders == {"male", "female", "other", "unknown"}

\* The HikerProfiles the functions are applied to; age 0 stands for no age.
CallProfiles ==
  [age : {0, 10, 17, 18, 30, 60, 65, 70, 71, 75}, gender : Genders,
   skill_level : 1..5]

\* The WeatherConditions the functions are applied to, in tenths.
CallWeathers ==
  [temperature_c : {-150, -100, -50, 0, 150, 300, 350},
   precipitation_mm : {0, 20, 50, 60, 100},
   wind_speed_ms : {0, 100, 150}]

\* The agents the direction weights are computed for: the strategies that
\* use them, at the centre and near the edges of the terrain.
CallAgents ==
  {[id |-> 0, lat |-> lat, lon |-> lon, elevation |-> 0, strategy |-> st,
    heading |-> 0, steps_taken |-> 0, energy |-> 1000, is_active |-> TRUE] :
     lat \in {0, 5, -5, 8, -8}, lon \in {0, 5, -5, 8, -8},
     st \in Strategies \ {"DT"}}

\* HikerProfile.speed_factor of the profile p: the property reads age and
\* skill_level only.
profile_speed_factor(p) == speed_factor(p.age, p.skill_level)

\* TerrainSampler.elevation at the centre of the cell (row, col), where
\* _latlon_to_rowcol gives (row + 0.5, col + 0.5); the value is kept times 4.
elevation_at_center(t, row, col) ==
  Some(interpolate(t.elevation_grid, t.shape.rows, t.shape.cols,
                   2 * row + 1, 2 * col + 1, 2, 2))

\* No run is in progress and no function has been applied yet; each
\* behaviour applies one function once.
FunctionInit ==
  /\ pc = "call"
  /\ parallel = FALSE
  /\ time_args = [given |-> FALSE, elapsed_seconds |-> 0]
  /\ radius = 10
  /\ grid_size = 2
  /\ profile \in Profiles
  /\ loaded = {}
  /\ terrain = load_terrain(0, "flat")
  /\ features = rasterize_features("none", terrain.shape)
  /\ weather = NoWeather
  /\ num_steps = 0
  /\ step = 0
  /\ agents = <<>>
  /\ tracked_id = NoAgent
  /\ time_slices = <<>>
  /\ result = NoResult
  /\ cancel_requested = FALSE
  /\ faults = {}
  /\ stepped = {}
  /\ active_counts = <<>>
  /\ rng = 0
  /\ twin = NoTwin
  /\ call = NoCall
  /\ value = NoCall
  /\ memory_cache = <<>>
  /\ cache_order = <<>>
  /\ recency = <<>>

\* _latlon_to_index(lat, lon, terrain).
CallToIndex ==
  /\ pc = "call"
  /\ call = NoCall
  /\ \E t \in CallTerrains : \E lat \in CallLats(t) : \E lon \in CallLons(t) :
       /\ call' = [fn |-> "to_index", terrain |-> t, lat |-> lat, lon |-> lon]
       /\ value' = latlon_to_index(lat, lon, t)
  /\ UNCHANGED <<run_vars, rng, twin, memory_cache, cache_order, recency>>

\* sampler.elevation(lat, lon).
CallElevation ==
  /\ pc = "call"
  /\ call = NoCall
  /\ \E t \in CallTerrains : \E lat \in CallLats(t) : \E lon \in CallLons(t) :
       /\ call' = [fn |-> "elevation", terrain |-> t, lat |-> lat, lon |-> lon]
       /\ value' = elevation(t, lat, lon)
  /\ UNCHANGED <<run_vars, rng, twin, memory_cache, cache_order, recency>>

\* sampler.elevation at the centre of a grid cell.
CallElevationAtCenter ==
  /\ pc = "call"
  /\ call = NoCall
  /\ \E t \in CallTerrains :
     \E row \in 0..(t.shape.rows - 1) : \E col \in 0..(t.shape.cols - 1) :
       /\ call' = [fn |-> "elevation_at_center", terrain |-> t,
                   row |-> row, col |-> col]
       /\ value' = elevation_at_center(t, row, col)
  /\ UNCHANGED <<run_vars, rng, twin, memory_cache, cache_order, recency>>

\* WeatherConditions.movement_penalty.
CallMovementPenalty ==
  /\ pc = "call"
  /\ call = NoCall
  /\ \E w \in CallWeathers :
       /\ call' = [fn |-> "movement_penalty", weather |-> w]
       /\ value' = movement_penalty(w.temperature_c, w.precipitation_mm,
                                    w.wind_speed_ms)
  /\ UNCHANGED <<run_vars, rng, twin, memory_cache, cache_order, recency>>

\* HikerProfile.speed_factor.
CallSpeedFactor ==
  /\ pc = "call"
  /\ call = NoCall
  /\ \E p \in CallProfiles :
       /\ call' = [fn |-> "speed_factor", profile |-> p]
       /\ value' = profile_speed_factor(p)
  /\ UNCHANGED <<run_vars, rng, twin, memory_cache, cache_order, recency>>

\* _calculate_direction_weights.
CallDirectionWeights ==
  /\ pc = "call"
  /\ call = NoCall
  /\ \E t \in CallTerrains : \E kind \in FeatureKinds : \E a \in CallAgents :
       /\ call' = [fn |-> "direction_weights", terrain |-> t, kind |-> kind,
                   agent |-> a]
       /\ value' = calculate_direction_weights(
                     a, t, rasterize_features(kind, t.shape))
  /\ UNCHANGED <<run_vars, rng, twin, memory_cache, cache_order, recency>>

FunctionNext ==
  \/ CallToIndex
  \/ CallElevation
  \/ CallElevationAtCenter
  \/ CallMovementPenalty
  \/ CallSpeedFactor
  \/ CallDirectionWeights

FunctionSpec == FunctionInit /\ [][FunctionNext]_vars

\* ----------------------------------------------------------- DEM loader

\* LRU_CACHE_SIZE.
LRU_CACHE_SIZE == 4

\* The 1x1 degree tiles the loader is asked for, as (lat, lon) of their
\* south-west corner in whole degrees.
TileKeys == {<<50, -116>>, <<50, -115>>, <<51, -116>>, <<51, -115>>, <<49, -116>>}

\* The bounds of a search of radius_km around the centre, in thousandths
\* of a degree: delta_lat = radius_km / 111 and delta_lon = radius_km /
\* (111 * |cos(center_lat)|), the cosine in thousandths (0.629 at 50.99,
\* 0.636 at 50.5, 0.643 at 50.01, 0.649 at 49.5).
search_bounds(center_lat, center_lon, radius_km) ==
  LET cos_milli == CASE center_lat = 50990 -> 629
                     [] center_lat = 50500 -> 636
                     [] center_lat = 50010 -> 643
                     [] OTHER -> 649
      delta_lat == (radius_km * 1000) \div 111
      delta_lon == (radius_km * 1000000) \div (111 * cos_milli)
  IN  [west |-> center_lon - delta_lon, south |-> center_lat - delta_lat,
       east |-> center_lon + delta_lon, north |-> center_lat + delta_lat]

\* MeritDEMLoader.validate_single_tile: the tile of the search, or None
\* for the ValueError raised when its corners lie in different tiles.
validate_single_tile(center_lat, center_lon, radius_km) ==
  LET b == search_bounds(center_lat, center_lon, radius_km)
      lat_min == FloorDiv(b.south, 1000)
      lat_max == FloorDiv(b.north, 1000)
      lon_min == FloorDiv(b.west, 1000)
      lon_max == FloorDiv(b.east, 1000)
  IN  IF lat_min # lat_max \/ lon_min # lon_max
      THEN None
      ELSE Some(<<lat_min, lon_min>>)

\* A cache hit that leaves the order as it is.
get_from_memory_cache_in_place(order, key) == order

\* MeritDEMLoader._get_from_memory_cache on a hit: _cache_order.remove(key)
\* takes out the first occurrence of the key, append puts it at the end.
get_from_memory_cache(order, key) ==
  LET first == CHOOSE i \in 1..Len(order) :
                 order[i] = key /\ \A j \in 1..(i - 1) : order[j] # key
  IN  Append(SubSeq(order, 1, first - 1) \o SubSeq(order, first + 1, Len(order)),
             key)

\* MeritDEMLoader._add_to_memory_cache: the oldest keys are popped from the
\* order and deleted from the cache while the order holds LRU_CACHE_SIZE
\* keys or more, then the tile is stored and its key appended.
add_to_memory_cache(cache, order, key, tile) ==
  LET evictions == Max(0, Len(order) - LRU_CACHE_SIZE + 1)
      evicted == {order[i] : i \in 1..evictions}
  IN  [memory_cache |-> [k \in (DOMAIN cache \ evicted) \cup {key} |->
                           IF k = key THEN tile ELSE cache[k]],
       cache_order |-> Append(SubSeq(order, evictions + 1, Len(order)), key)]

\* MeritDEMLoader.load_tile: a hit returns the cached tile; a miss reads
\* the tile file (downloaded first when auto_download is set) and caches
\* it, or raises when the file cannot be had (readable = FALSE).
load_tile(cache, order, key, readable) ==
  IF key \in DOMAIN cache
  THEN [raised |-> FALSE, hit |-> TRUE, memory_cache |-> cache,
        cache_order |-> get_from_memory_cache(order, key)]
  ELSE IF ~readable
  THEN [raised |-> TRUE, hit |-> FALSE, memory_cache |-> cache,
        cache_order |-> order]
  ELSE LET added == add_to_memory_cache(
                      cache, order, key,
                      [bounds |-> [west |-> 1000 * key[2], south |-> 1000 * key[1],
                                   east |-> 1000 * (key[2] + 1),
                                   north |-> 1000 * (key[1] + 1)]])
       IN  [raised |-> FALSE, hit |-> FALSE, memory_cache |-> added.memory_cache,
            cache_order |-> added.cache_order]

\* MeritDEMLoader.get_elevation_for_search: the ValueError of
\* validate_single_tile, the exception of load_tile, or the DEMData, of
\* which the metadata bounds are kept.
get_elevation_for_search(cache, order, center_lat, center_lon, radius_km, readable) ==
  LET tile == validate_single_tile(center_lat, center_lon, radius_km)
  IN  IF ~tile.ok
      THEN [raised |-> "ValueError", loaded |-> FALSE, memory_cache |-> cache,
            cache_order |-> order]
      ELSE LET l == load_tile(cache, order, tile.v, readable)
           IN  IF l.raised
               THEN [raised |-> "load_tile", loaded |-> FALSE,
                     memory_cache |-> cache, cache_order |-> order]
               ELSE [raised |-> "no", loaded |-> TRUE, key |-> tile.v,
                     bounds |-> search_bounds(center_lat, center_lon, radius_km),
                     memory_cache |-> l.memory_cache,
                     cache_order |-> l.cache_order]

\* The history of a successful load_tile: the key becomes the most
\* recently used one.
used(history, key) ==
  Append(SelectSeq(history, LAMBDA k : k # key), key)

\* A loader as MeritDEMLoader.__init__ leaves it: empty cache.
DemInit ==
  /\ pc = "dem"
  /\ parallel = FALSE
  /\ time_args = [given |-> FALSE, elapsed_seconds |-> 0]
  /\ radius = 10
  /\ grid_size = 2
  /\ profile \in Profiles
  /\ loaded = {}
  /\ terrain = load_terrain(0, "flat")
  /\ features = rasterize_features("none", terrain.shape)
  /\ weather = NoWeather
  /\ num_steps = 0
  /\ step = 0
  /\ agents = <<>>
  /\ tracked_id = NoAgent
  /\ time_slices = <<>>
  /\ result = NoResult
  /\ cancel_requested = FALSE
  /\ faults = {}
  /\ stepped = {}
  /\ active_counts = <<>>
  /\ rng = 0
  /\ twin = NoTwin
  /\ call = NoCall
  /\ value = NoCall
  /\ memory_cache = <<>>
  /\ cache_order = <<>>
  /\ recency = <<>>

\* loader.load_tile(lat, lon).
LoadTile ==
  /\ pc = "dem"
  /\ \E key \in TileKeys, readable \in BOOLEAN :
     \E l \in {load_tile(memory_cache, cache_order, key, readable)} :
       /\ call' = [fn |-> "load_tile", key |-> key]
       /\ value' = [raised |-> l.raised, hit |-> l.hit]
       /\ memory_cache' = l.memory_cache
       /\ cache_order' = l.cache_order
       /\ recency' = IF l.raised THEN recency ELSE used(recency, key)
  /\ UNCHANGED <<run_vars, rng, twin>>

\* loader.get_elevation_at_point(lat, lon): the tile of the point is
\* loaded; any exception gives None, and so does a pixel that is -9999 or
\* not above -500.
GetElevationAtPoint ==
  /\ pc = "dem"
  /\ \E lat \in {49500, 50500}, lon \in {-115500}, readable \in BOOLEAN,
        pixel \in {NODATA, -600, 1200} :
     \E key \in {<<FloorDiv(lat, 1000), FloorDiv(lon, 1000)>>} :
     \E l \in {load_tile(memory_cache, cache_order, key, readable)} :
       /\ call' = [fn |-> "get_elevation_at_point", key |-> key]
       /\ value' = [raised |-> FALSE, hit |-> l.hit,
                    elevation |-> IF ~l.raised /\ pixel # NODATA /\ pixel > -500
                                  THEN Some(pixel) ELSE None]
       /\ memory_cache' = l.memory_cache
       /\ cache_order' = l.cache_order
       /\ recency' = IF l.raised THEN recency ELSE used(recency, key)
  /\ UNCHANGED <<run_vars, rng, twin>>

\* loader.preload_tile(lat, lon): load_tile with its exception turned into
\* the result False.
PreloadTile ==
  /\ pc = "dem"
  /\ \E key \in TileKeys, readable \in BOOLEAN :
     \E l \in {load_tile(memory_cache, cache_order, key, readable)} :
       /\ call' = [fn |-> "preload_tile", key |-> key]
       /\ value' = [raised |-> FALSE, hit |-> l.hit, preloaded |-> ~l.raised]
       /\ memory_cache' = l.memory_cache
       /\ cache_order' = l.cache_order
       /\ recency' = IF l.raised THEN recency ELSE used(recency, key)
  /\ UNCHANGED <<run_vars, rng, twin>>

\* loader.clear_cache().
ClearCache ==
  /\ pc = "dem"
  /\ call' = [fn |-> "clear_cache"]
  /\ value' = [raised |-> FALSE, hit |-> FALSE]
  /\ memory_cache' = <<>>
  /\ cache_order' = <<>>
  /\ recency' = <<>>
  /\ UNCHANGED <<run_vars, rng, twin>>

\* loader.get_elevation_for_search(center_lat, center_lon, radius_km): the
\* searches of the edge tests (2 km around 50.99 N 115.5 W, 5 km around
\* 50.5 N 115.01 W), one inside the tile and one across its south-west
\* corner.
GetElevationForSearch ==
  /\ pc = "dem"
  /\ \E search \in {[lat |-> 50990, lon |-> -115500, radius_km |-> 2],
                    [lat |-> 50500, lon |-> -115010, radius_km |-> 5],
                    [lat |-> 50500, lon |-> -115500, radius_km |-> 5],
                    [lat |-> 50010, lon |-> -115990, radius_km |-> 2]},
        readable \in BOOLEAN :
     \E r \in {get_elevation_for_search(memory_cache, cache_order, search.lat,
                                        search.lon, search.radius_km, readable)} :
       /\ call' = [fn |-> "get_elevation_for_search", search |-> search,
                   readable |-> readable]
       /\ value' = IF r.loaded
                   THEN [raised |-> r.raised, bounds |-> r.bounds]
                   ELSE [raised |-> r.raised]
       /\ memory_cache' = r.memory_cache
       /\ cache_order' = r.cache_order
       /\ recency' = IF r.loaded THEN used(recency, r.key) ELSE recency
  /\ UNCHANGED <<run_vars, rng, twin>>

DemNext ==
  \/ LoadTile
  \/ GetElevationAtPoint
  \/ PreloadTile
  \/ ClearCache
  \/ GetElevationForSearch

DemSpec == DemInit /\ [][DemNext]_vars

\* ------------------------------------------------------------------ claims

AllLoaded == loaded = {"terrain", "features", "weather"}

ActiveCount(ags) == Cardinality(active_ids(ags))

\* C1: the returned time_slices list has exactly num_steps entries and the
\* k-th entry (from 0) has time_offset_minutes = 15 * k.
C1_SliceCountIsNumSteps ==
  result.returned =>
    /\ Len(result.time_slices) = num_steps
    /\ \A k \in 1..Len(result.time_slices) :
         result.time_slices[k].time_offset_minutes = 15 * (k - 1)

\* C2: every agent that is active after a timestep is within the radius of
\* the centre and inside the terrain bounds, whether it moved, waited or is
\* still where it was initialized; so is every entry of final_positions.
C2_ActiveAgentsInsideRadius ==
  /\ \A i \in 1..Len(agents) :
       (step >= 1 /\ agents[i].is_active) =>
         /\ ~exceeds_radius(agents[i].lat, agents[i].lon, radius)
         /\ is_in_bounds(terrain, agents[i].lat, agents[i].lon)
  /\ \A i \in 1..Len(result.final_positions) :
       step >= 1 =>
       /\ ~exceeds_radius(result.final_positions[i].lat,
                          result.final_positions[i].lon, radius)
       /\ is_in_bounds(terrain, result.final_positions[i].lat,
                       result.final_positions[i].lon)

\* C3: an agent whose is_active is false stays inactive in every later
\* step, and the number of active agents never increases from one timestep
\* to the next.
C3_NeverReactivated ==
  [][/\ \A i \in 1..Len(agents) :
          ~agents[i].is_active =>
            \A j \in 1..Len(agents') :
              agents'[j].id = agents[i].id => ~agents'[j].is_active
     /\ pc = "loop" => ActiveCount(agents') <= ActiveCount(agents)]_vars

\* An agent stopped at least two timesteps ago while another one is still
\* being stepped.
C3_Witness ==
  \E i, j \in 1..Len(agents) :
    /\ ~agents[i].is_active
    /\ agents[j].is_active
    /\ agents[j].steps_taken >= agents[i].steps_taken + 2

\* C4: every agent has 0.1 <= energy <= 1.0 after initialization and after
\* any number of kernel steps, and a kernel step never increases energy.
C4_EnergyRange ==
  /\ [](\A i \in 1..Len(agents) :
          100 <= agents[i].energy /\ agents[i].energy <= 1000)
  /\ [][\A i \in 1..Len(agents) :
          \A j \in 1..Len(agents') :
            agents'[j].id = agents[i].id => agents'[j].energy <= agents[i].energy]_vars

\* An agent that has walked its energy down to the floor and is still
\* active.
C4_Witness ==
  \E i \in 1..Len(agents) :
    agents[i].is_active /\ agents[i].energy = 100 /\ agents[i].steps_taken >= 2

\* C5: every value of every emitted grid is in [0, 1]; the maximum of a
\* grid is exactly 1 when an agent is active after the step and exactly 0
\* when none is.
C5_GridRange ==
  \A k \in 1..Len(time_slices) :
    /\ \A r, c \in 0..(grid_size - 1) :
         0 <= time_slices[k].grid[r][c] /\ time_slices[k].grid[r][c] <= 1000
    /\ grid_max(time_slices[k].grid, grid_size)
         = IF active_counts[k] > 0 THEN 1000 ELSE 0

\* A grid of two active agents with a value strictly between 0 and 1,
\* followed by a grid of no agent.
C5_Witness ==
  \E k \in 1..Len(time_slices) :
    /\ active_counts[k] = 2
    /\ \E r, c \in 0..(grid_size - 1) :
         0 < time_slices[k].grid[r][c] /\ time_slices[k].grid[r][c] < 1000
    /\ \E m \in (k + 1)..Len(time_slices) : active_counts[m] = 0

\* C6: once no agent is active, every remaining timestep still produces a
\* slice, each an all-zero grid_size x grid_size grid, and the run returns
\* num_steps slices.
C6_ZeroGridsAfterExtinction ==
  /\ \A k \in 1..Len(time_slices) :
       active_counts[k] = 0 => time_slices[k].grid = zeros(grid_size)
  /\ (pc = "loop" /\ step < num_steps /\ ActiveCount(agents) = 0 /\ step > 0) =>
       ENABLED LoopStep
  /\ (pc = "error" /\ active_counts # <<>>) =>
       active_counts[Len(active_counts)] > 0
  /\ (result.returned /\ \E k \in 1..Len(active_counts) : active_counts[k] = 0) =>
       Len(result.time_slices) = num_steps

\* A returned run of 32 slices in which no agent was active from the
\* second timestep on.
C6_Witness ==
  /\ result.returned
  /\ Len(result.time_slices) = 32
  /\ active_counts[1] > 0
  /\ active_counts[2] = 0
  /\ result.time_slices[32].grid = zeros(grid_size)

\* C7: whatever time_last_seen and current_time are, the run returns
\* exactly 32 slices.
C7_AlwaysThirtyTwoSlices ==
  result.returned => Len(result.time_slices) = 32

\* C8: an agent whose kernel call raised is in the agent list with
\* is_active = false, and the run goes on.
C8_KernelErrorContained ==
  \A id \in faults :
    /\ pc # "error"
    /\ \E i \in 1..Len(agents) : agents[i].id = id /\ ~agents[i].is_active

\* C9: terrain, features and weather are loaded before any agent is
\* initialized or stepped; a run whose elevation provider raised ends in
\* the error with no agent, no slice and no result.
C9_LoadedBeforeKernel ==
  /\ (agents # <<>> \/ stepped # {} \/ step > 0 \/ result.returned) => AllLoaded
  /\ (pc = "error" /\ "terrain" \notin loaded) =>
       /\ agents = <<>>
       /\ stepped = {}
       /\ time_slices = <<>>
       /\ ~result.returned

\* The elevation provider has raised.
C9_Witness == pc = "error" /\ "terrain" \notin loaded

\* C10: once cancellation is requested, no further timestep is executed
\* and no result is returned.
C10_CancelStopsTheRun ==
  [][cancel_requested => (step' = step /\ ~result'.returned)]_vars

\* One of the four bilinear corner cells of (lat, lon) holds NODATA.
has_nodata_corner(t, lat, lon) ==
  /\ is_in_bounds(t, lat, lon)
  /\ LET row_n == (t.bounds.north - lat) * t.shape.rows
         col_n == (lon - t.bounds.west) * t.shape.cols
         dr_den == t.bounds.north - t.bounds.south
         dc_den == t.bounds.east - t.bounds.west
     IN  \E r \in {cell_lo(row_n, dr_den, t.shape.rows),
                   cell_hi(row_n, dr_den, t.shape.rows)} :
         \E c \in {cell_lo(col_n, dc_den, t.shape.cols),
                   cell_hi(col_n, dc_den, t.shape.cols)} :
           t.elevation_grid[r][c] = NODATA

\* C13: the elevation of a point with a NODATA corner is none, so an agent
\* the kernel has committed to its position (active after a step, not a
\* waiting SP agent) is never at a point with a NODATA corner.
C13_NoDataNeverInterpolated ==
  \A i \in 1..Len(agents) :
    (pc = "kernel" /\ agents[i].steps_taken >= 1 /\ agents[i].is_active
       /\ agents[i].strategy # "SP") =>
      /\ ~has_nodata_corner(terrain, agents[i].lat, agents[i].lon)
      /\ has_nodata_corner(terrain, agents[i].lat, agents[i].lon) =>
           ~elevation(terrain, agents[i].lat, agents[i].lon).ok

\* C14: to_index is the floor of the scaled offsets: (north, west) maps to
\* (0, 0), a point north of the north edge or west of the west edge to a
\* negative index that _is_valid_index rejects, a point on the south or
\* east edge to R or C.
C14_IndexIsFloor ==
  call.fn = "to_index" =>
    LET t == call.terrain
    IN  /\ value.row = FloorDiv((t.bounds.north - call.lat) * t.shape.rows,
                                t.bounds.north - t.bounds.south)
        /\ value.col = FloorDiv((call.lon - t.bounds.west) * t.shape.cols,
                                t.bounds.east - t.bounds.west)
        /\ (call.lat = t.bounds.north /\ call.lon = t.bounds.west) =>
             value = [row |-> 0, col |-> 0]
        /\ call.lat > t.bounds.north => value.row < 0
        /\ call.lon < t.bounds.west => value.col < 0
        /\ (call.lat > t.bounds.north \/ call.lon < t.bounds.west) =>
             ~is_valid_index(value.row, value.col, t.shape)
        /\ call.lat = t.bounds.south => value.row = t.shape.rows
        /\ call.lon = t.bounds.east => value.col = t.shape.cols

\* C15: the bilinear elevation at the centre of a grid cell is the value
\* stored in that cell (both times 4 here).
C15_CenterIsStoredValue ==
  call.fn = "elevation_at_center" =>
    /\ value.ok
    /\ value.v = 4 * call.terrain.elevation_grid[call.row][call.col]

\* The penalty the specification gives, in thousandths.
claimed_penalty(w) ==
  LET cold == IF w.temperature_c < -100 THEN 400
              ELSE IF w.temperature_c < 0 THEN 200 ELSE 0
      heat == IF w.temperature_c > 300 THEN 200 ELSE 0
      rain == IF w.precipitation_mm > 0 THEN Min(300, w.precipitation_mm * 5) ELSE 0
      wind == IF w.wind_speed_ms > 100 THEN 100 ELSE 0
  IN  Max(0, Min(800, cold + heat + rain + wind))

\* C16: movement_penalty is 0.4 below -10 degrees, else 0.2 below 0, plus
\* 0.2 above 30 degrees, plus min(0.3, 0.05 * precipitation), plus 0.1 for
\* wind above 10 m/s, clamped to [0, 0.8].
C16_PenaltyIsTheSum ==
  call.fn = "movement_penalty" => value = claimed_penalty(call.weather)

\* C17: with positive precipitation and the default temperature (15
\* degrees) and wind (0), movement_penalty is exactly 0.08.
C17_RainPenaltyIsEightPercent ==
  (/\ call.fn = "movement_penalty"
   /\ call.weather.precipitation_mm > 0
   /\ call.weather.temperature_c = 150
   /\ call.weather.wind_speed_ms = 0) => value = 80

\* The speed factor the specification gives, in thousandths.
claimed_speed_factor(p) ==
  LET age_scale == IF p.age = 0 THEN 1000
                   ELSE IF p.age < 18 THEN 800
                   ELSE IF p.age > 70 THEN 500
                   ELSE IF p.age >= 60 THEN 700
                   ELSE 1000
  IN  ((6 + p.skill_level) * age_scale) \div 10

\* C18: speed_factor is (0.6 + 0.1 * skill) * age_scale, with age_scale 0.8
\* below 18, 0.7 from 60 to 70, 0.5 above 70 and 1.0 otherwise.
C18_SpeedFactorByAge ==
  call.fn = "speed_factor" => value = claimed_speed_factor(call.profile)

\* C19: for the same age and skill_level, the female speed_factor is 0.942
\* times the male one to two decimal places.
C19_FemaleSlowerThanMale ==
  call.fn = "speed_factor" =>
    LET female == profile_speed_factor([call.profile EXCEPT !.gender = "female"])
        male == profile_speed_factor([call.profile EXCEPT !.gender = "male"])
    IN  Abs(female * 1000 - 942 * male) * 200 < male * 1000

\* C20: a lookahead candidate outside the terrain bounds has weight 0.01,
\* whatever the strategy and the feature masks.
C20_OutOfBoundsWeight ==
  call.fn = "direction_weights" =>
    \A d \in 0..7 :
      ~is_in_bounds(call.terrain,
                    call.agent.lat + DIRECTIONS[d].dy * FEATURE_LOOKAHEAD,
                    call.agent.lon + DIRECTIONS[d].dx * FEATURE_LOOKAHEAD) =>
        value[d + 1] = 10000

\* C11: in sequential mode two runs with the same arguments and the same
\* seed have the same slices and the same final positions, whatever the
\* wall-clock time of each run.
C11_SameSeedSameResult ==
  (twin.running /\ ~parallel /\ ~twin.parallel) =>
    /\ time_slices = twin.run.time_slices
    /\ final_positions(agents) = final_positions(twin.run.agents)

\* C12: the agents' trajectories do not depend on the worker count: a
\* sequential and a parallel run with the same arguments, seed and weather
\* have the same agents after every timestep.
C12_SameTrajectoriesForAnyWorkers ==
  (twin.running /\ weather = twin.run.weather) => agents = twin.run.agents

\* The kernel has been applied in the step from the unprimed to the primed
\* state.
KernelApplied ==
  /\ pc = "kernel"
  /\ value'.fn = "step_single_agent_pure"
  /\ agents'[1].steps_taken = agents[1].steps_taken + 1

\* lat, lon, elevation, energy and heading of the agent are those before
\* the step.
KernelLeftInPlace ==
  /\ agents'[1].lat = agents[1].lat
  /\ agents'[1].lon = agents[1].lon
  /\ agents'[1].elevation = agents[1].elevation
  /\ agents'[1].energy = agents[1].energy
  /\ agents'[1].heading = agents[1].heading

\* The stop probability the claim gives for the incremented step counter
\* n, in thousandths; 0 where no draw is made.
claimed_stop_prob(n) ==
  IF n > 96 THEN 50
  ELSE IF n > 20 THEN 20
  ELSE IF n > 4 THEN 5
  ELSE 0

\* C25: the time-based abandonment deactivates an agent only in a step
\* whose incremented steps_taken is greater than 4; the stop probability
\* used is 0.005 for 4 < steps <= 20, 0.02 for 20 < steps <= 96 and 0.05
\* above 96; an agent stopped by the draw is deactivated where it stands,
\* before any direction choice or move.
C25_AbandonmentSchedule ==
  [][KernelApplied =>
       /\ value'.stop_prob = claimed_stop_prob(agents'[1].steps_taken)
       /\ value'.log = "stop" =>
            /\ agents'[1].steps_taken > 4
            /\ ~agents'[1].is_active
            /\ KernelLeftInPlace]_vars

\* An agent that waited 96 timesteps is stopped by the draw of 0.05.
C25_Witness ==
  /\ pc = "kernel"
  /\ value.fn = "step_single_agent_pure"
  /\ value.log = "stop"
  /\ value.stop_prob = 50
  /\ agents[1].steps_taken > 96
  /\ ~agents[1].is_active

\* C26: an early return of the kernel (abandonment stop, staying-put wait,
\* candidate outside the terrain bounds, candidate beyond radius_km,
\* candidate elevation unavailable) leaves lat, lon, elevation, energy and
\* heading as they were; a wait leaves is_active true and each failed
\* validation sets is_active false.
C26_EarlyReturnFrame ==
  [][(KernelApplied
      /\ value'.log \in {"stop", "wait", "bounds", "radius", "no_elevation"}) =>
       /\ KernelLeftInPlace
       /\ value'.log = "wait" => agents'[1].is_active
       /\ value'.log \in {"bounds", "radius", "no_elevation"} =>
            ~agents'[1].is_active]_vars

\* A candidate beyond radius_km has deactivated an agent that had moved
\* before.
C26_Witness ==
  /\ pc = "kernel"
  /\ value.fn = "step_single_agent_pure"
  /\ value.log = "radius"
  /\ ~agents[1].is_active
  /\ agents[1].energy < 1000

\* C29: each of the eight direction weights is at least 0.01, so their
\* total is at least 0.08 and the kernel never deactivates an agent as
\* trapped (total weight < 0.001), whatever the strategy, the terrain and
\* the feature masks.
C29_NeverTrapped ==
  pc = "kernel" =>
    /\ value.fn = "step_single_agent_pure" => value.log # "trapped"
    /\ agents[1].strategy # "DT" =>
         \A w \in {calculate_direction_weights(agents[1], terrain, features)} :
           /\ \A i \in 1..8 : w[i] >= 10000
           /\ total_weight(w) >= 80000

\* An agent of the weighted choice has moved in the gorge, where every
\* weight is the floor.
C29_Witness ==
  /\ pc = "kernel"
  /\ value.fn = "step_single_agent_pure"
  /\ value.log = "movement"
  /\ agents[1].strategy \in {"RT", "RW", "VE"}
  /\ features.cliffs[0][0] /\ features.rivers[0][0]
  /\ total_weight(calculate_direction_weights(agents[1], terrain, features)) = 80000

\* The weight the claim gives, in millionths, for a slope sl towards the
\* candidate and the masks of its cell: the product of the four factors,
\* floored at 0.01.  Uphill is a positive slope; downhill, as in the
\* comment of the code, is any other slope; there is no slope factor when
\* no slope is available.
claimed_weight(sl, strategy, trail, road, river, cliff) ==
  LET slope_tenths == IF ~sl.ok THEN 10
                      ELSE IF sl.v > 0
                      THEN (IF strategy = "VE" THEN 30 ELSE 12)
                      ELSE 8
      route_factor == IF trail \/ road
                      THEN (IF strategy = "RT" THEN 5 ELSE 2)
                      ELSE 1
      river_inverse == IF river THEN 10 ELSE 1
      cliff_inverse == IF cliff THEN 100 ELSE 1
  IN  Max(10000, (100000 * slope_tenths * route_factor)
                   \div (river_inverse * cliff_inverse))

\* The cell of a point inside the terrain's bounds, by the floor of its
\* offset from the north-west corner.
claimed_cell(t, lat, lon) ==
  [row |-> FloorDiv((t.bounds.north - lat) * t.shape.rows,
                    t.bounds.north - t.bounds.south),
   col |-> FloorDiv((lon - t.bounds.west) * t.shape.cols,
                    t.bounds.east - t.bounds.west)]

\* The mask m at the cell c, FALSE when the terrain has no such cell.
masked(m, c, shape) ==
  c.row \in 0..(shape.rows - 1) /\ c.col \in 0..(shape.cols - 1) /\ m[c.row][c.col]

\* C27: for a non-DT agent and each lookahead candidate inside the terrain
\* bounds, the direction weight is max(0.01, slope_factor * route_factor
\* * river_factor * cliff_factor): slope_factor 3.0 (VE) or 1.2 uphill and
\* 0.8 downhill, route_factor 5.0 (RT) or 2.0 on a trail or road cell,
\* once even when the cell is both, river_factor 0.1 on a river cell,
\* cliff_factor 0.01 on a cliff cell; with all masks false the weight is
\* the floored slope factor alone.
C27_DirectionWeightFormula ==
  call.fn = "direction_weights" =>
    \A d \in 0..7 :
      LET check_lat == call.agent.lat + DIRECTIONS[d].dy * FEATURE_LOOKAHEAD
          check_lon == call.agent.lon + DIRECTIONS[d].dx * FEATURE_LOOKAHEAD
          f == rasterize_features(call.kind, call.terrain.shape)
          c == claimed_cell(call.terrain, check_lat, check_lon)
          sl == slope(call.terrain, call.agent.lat, call.agent.lon,
                      check_lat, check_lon)
      IN  is_in_bounds(call.terrain, check_lat, check_lon) =>
            /\ value[d + 1] =
                 claimed_weight(sl, call.agent.strategy,
                                masked(f.trails, c, f.shape),
                                masked(f.roads, c, f.shape),
                                masked(f.rivers, c, f.shape),
                                masked(f.cliffs, c, f.shape))
            /\ call.kind = "none" =>
                 value[d + 1] = claimed_weight(sl, call.agent.strategy,
                                               FALSE, FALSE, FALSE, FALSE)

\* On the ramp a route-traveling agent looks north-west, downhill, at a
\* cell that is a trail and a road: 0.8 * 5.0, the route factor once; its
\* weights to the east and to the west differ by the slope.
C27_Witness ==
  /\ call.fn = "direction_weights"
  /\ call.kind = "trail"
  /\ call.agent.strategy = "RT"
  /\ call.agent.lat = 5 /\ call.agent.lon = -5
  /\ LET f == rasterize_features(call.kind, call.terrain.shape)
     IN  f.trails[0][0] /\ f.roads[0][0]
  /\ claimed_cell(call.terrain, 10, -10) = [row |-> 0, col |-> 0]
  /\ value[8] = 4000000
  /\ value[3] # value[7]

\* The sum of the cells of an n x n raster.
RECURSIVE raster_sum(_, _, _)
raster_sum(a, n, k) ==
  IF k = n * n THEN 0 ELSE a[k \div n][k % n] + raster_sum(a, n, k + 1)

\* C28: after any step, each active agent adds exactly 1 to exactly one
\* cell of the output grid and exactly 1 to exactly one cell of the heatmap
\* raster; both are divided by the same active_count, the number of
\* active agents, and each sums to 1.0 before smoothing whenever an agent
\* is active.
C28_OneCellPerActiveAgent ==
  (pc = "loop" /\ step > 0 /\ active_ids(agents) # {}) =>
    LET active_count == Cardinality(active_ids(agents))
        heatmap == agents_to_heatmap(agents, terrain)
        grid_counts == [r \in 0..(grid_size - 1) |-> [c \in 0..(grid_size - 1) |->
                          cell_count(agents, active_ids(agents), terrain,
                                     grid_size, r, c)]]
    IN  /\ raster_sum(grid_counts, grid_size, 0) = 10000 * active_count
        /\ heatmap.active_count = active_count
        /\ raster_sum(heatmap.counts, terrain.shape.rows, 0) = active_count

\* One iteration of the simulation loop is taken from the unprimed to the
\* primed state: log_step_start and _step_agents have been called.
LoopStepTaken == pc = "loop" /\ (step' = step + 1 \/ pc' = "error")

\* The id names an agent of the list that is active.
NamesActive(ags, tid) ==
  \E i \in 1..Len(ags) : ags[i].id = tid /\ ags[i].is_active

\* C22: after log_step_start the tracked id is None or names an agent
\* that is active at that moment; a tracked agent found inactive is
\* replaced by an active agent of a different id when one remains, and by
\* None when none remains.
C22_TrackerFollowsActive ==
  [][LoopStepTaken =>
       /\ tracked_id' = NoAgent \/ NamesActive(agents, tracked_id')
       /\ (~NamesActive(agents, tracked_id) /\ \E i \in 1..Len(agents) :
                                                  agents[i].is_active) =>
            tracked_id' # tracked_id /\ NamesActive(agents, tracked_id')
       /\ (\A i \in 1..Len(agents) : ~agents[i].is_active) =>
            tracked_id' = NoAgent]_vars

\* Every agent has stopped and log_step_start has set tracked_id to None.
C22_Witness ==
  /\ pc = "loop"
  /\ step >= 2
  /\ Len(agents) = NumAgents
  /\ \A i \in 1..Len(agents) : ~agents[i].is_active /\ agents[i].steps_taken < step
  /\ tracked_id = NoAgent

\* C23: the list _step_agents returns holds each id of its input exactly
\* once (the ids stay 0..N-1) in ascending order, in sequential and in
\* parallel mode, also when a worker raises.
C23_IdsKeptAndSorted ==
  (pc = "loop" /\ step >= 1) =>
    /\ Len(agents) = NumAgents
    /\ \A i \in 1..Len(agents) : agents[i].id = i - 1

\* C24: in every timestep each agent active at its start is passed to the
\* kernel exactly once (the returned list holds it once, with steps_taken
\* grown by exactly 1), and each agent inactive at its start is returned
\* with all its fields unchanged.
C24_EachActiveSteppedOnce ==
  [][LoopStepTaken =>
       \A i \in 1..Len(agents) :
         /\ Cardinality({j \in 1..Len(agents') : agents'[j].id = agents[i].id}) = 1
         /\ \A j \in 1..Len(agents') :
              agents'[j].id = agents[i].id =>
                IF agents[i].is_active
                THEN agents'[j].steps_taken = agents[i].steps_taken + 1
                ELSE agents'[j] = agents[i]]_vars

\* C21: get_elevation_for_search of a readable tile, for a search area
\* that passes the north or the east edge of the 1x1 degree tile of its
\* centre, raises nothing and returns metadata bounds clipped to the tile:
\* north and east are those of the tile edge wherever the area passes it.
C21_SearchClippedAtTileEdge ==
  (/\ call.fn = "get_elevation_for_search"
   /\ call.readable
   /\ LET b == search_bounds(call.search.lat, call.search.lon,
                             call.search.radius_km)
      IN  \/ b.north > 1000 * (FloorDiv(call.search.lat, 1000) + 1)
          \/ b.east > 1000 * (FloorDiv(call.search.lon, 1000) + 1))
  => /\ value.raised = "no"
     /\ value.bounds.north
          = Min(search_bounds(call.search.lat, call.search.lon,
                              call.search.radius_km).north,
                1000 * (FloorDiv(call.search.lat, 1000) + 1))
     /\ value.bounds.east
          = Min(search_bounds(call.search.lat, call.search.lon,
                              call.search.radius_km).east,
                1000 * (FloorDiv(call.search.lon, 1000) + 1))

\* The cached key that was loaded or hit longest ago.
least_recently_used ==
  LET first == CHOOSE i \in 1..Len(recency) :
                 /\ recency[i] \in DOMAIN memory_cache
                 /\ \A j \in 1..(i - 1) : recency[j] \notin DOMAIN memory_cache
  IN  recency[first]

\* C30: whatever load_tile, get_elevation_at_point, preload_tile,
\* clear_cache and get_elevation_for_search calls are made, failing loads
\* among them, the cache holds at most LRU_CACHE_SIZE tiles, _cache_order
\* holds exactly the keys of _memory_cache, each once, and a call that
\* takes a tile out of the cache without clearing it takes out exactly the
\* one loaded or hit longest ago, to make room in a full cache for the
\* tile it loads.
C30_CacheIsLru ==
  [][/\ Cardinality(DOMAIN memory_cache') <= LRU_CACHE_SIZE
     /\ {cache_order'[i] : i \in 1..Len(cache_order')} = DOMAIN memory_cache'
     /\ Len(cache_order') = Cardinality(DOMAIN memory_cache')
     /\ (call'.fn # "clear_cache" /\ DOMAIN memory_cache \ DOMAIN memory_cache' # {})
          => /\ Cardinality(DOMAIN memory_cache) = LRU_CACHE_SIZE
             /\ DOMAIN memory_cache \ DOMAIN memory_cache' = {least_recently_used}
             /\ Cardinality(DOMAIN memory_cache' \ DOMAIN memory_cache) = 1]_vars

\* load_tile has read a fifth tile into a full cache: the tile used
\* longest ago is gone and the four others are in the order of their use.
C30_Witness ==
  /\ call.fn = "load_tile"
  /\ ~value.raised
  /\ ~value.hit
  /\ Cardinality(DOMAIN memory_cache) = LRU_CACHE_SIZE
  /\ cache_order = <<<<51, -115>>, <<50, -116>>, <<50, -115>>, <<49, -116>>>>
  /\ recency = <<<<51, -116>>>> \o cache_order

====
